---- MODULE Spec2Model ----
(***************************************************************************)
(* Model of the DigiSac <-> respond.io bridge.                             *)
(*                                                                         *)
(* The components are modelled each with its own specification over the   *)
(* same variables (a specification leaves the other components' variables  *)
(* untouched):                                                             *)
(*   SpecRetry     RetryManager (src/utils/retryManager.js)                *)
(*   SpecCache     SimpleCache (src/unnamed/part_001) with Node's timers   *)
(*   SpecDedup     MessageCache (src/utils/validators.js) called directly  *)
(*   SpecSend      the POST /:channelID/message handler (part_011)         *)
(*   SpecChannels  getChannelsByServiceId (part_011) over the cache        *)
(*   Spec          the POST /digisac/webhook handler (part_011) with       *)
(*                 MessageCache                                            *)
(*   SpecOverlap   that handler under two overlapping deliveries           *)
(*   SpecFanout    that handler's fan-out with permanent rejections        *)
(*   SpecLive      that handler when everything it awaits settles          *)
(*   SpecDirectory ReferaApiService (src/services/refera.js): login,       *)
(*                 cooldown and callMessageTool                            *)
(***************************************************************************)
EXTENDS Integers, Sequences, FiniteSets, TLC

(***************************************************************************)
(* Bounds of the model.                                                    *)
(***************************************************************************)
\* largest maxRetries handed to the RetryManager constructor in SpecRetry
MaxRetriesArg == 4
\* executeWithRetry calls started in one behaviour of SpecRetry
MaxOps == 2
\* clock readings of SpecCache beyond the first
MaxCacheTicks == 4
\* SimpleCache.set calls in one behaviour of SpecCache
MaxSets == 3
\* clock readings of Spec beyond the first
MaxTicks == 3
\* webhook requests received in one behaviour of Spec
MaxDeliveries == 2
\* channels the directory lists for the subscribed service
NumChannels == 3
\* direct calls of MessageCache's methods in one behaviour of SpecDedup
MaxCalls == 3
\* requests to POST /:channelID/message in one behaviour of SpecSend
MaxSendRequests == 2
\* getChannelsByServiceId calls in one behaviour of SpecChannels
MaxChannelCalls == 3
\* clock readings of SpecChannels beyond the first
MaxChannelTicks == 3
\* callMessageTool calls made from outside in one behaviour of SpecDirectory
MaxDirectoryCalls == 3
\* clock readings of SpecDirectory beyond the first
MaxDirectoryTicks == 3
\* the requests of one call are counted up to this number
RequestCountCap == 3

(***************************************************************************)
(* Program constants.                                                      *)
(***************************************************************************)
DefaultMaxRetries == 3
DefaultBaseDelay == 1000
DefaultMaxDelay == 10000
MessageCacheTtl == 300000
ChannelsTtl == 600000
ContactTtl == 900000
\* ReferaApiService: this.cooldownMinutes, the margin of isTokenValid and the
\* default token lifetime (86400 s), in minutes
CooldownMinutes == 60
TokenMarginMinutes == 5
DefaultExpiresIn == 1440
\* line of the const startTime declared inside the handler's try block
InnerStartTimeLine == 1340
\* line of the read of startTime in the duplicate branch
DuplicateBranchLine == 690
\* line of the read of startTime after markAsProcessed
AcknowledgeLine == 1394

VARIABLES
  \* ---- RetryManager (SpecRetry)
  maxRetries,     \* this.maxRetries
  baseDelay,      \* this.baseDelay
  maxDelay,       \* this.maxDelay
  stats,          \* this.stats
  ops,            \* the executeWithRetry calls: slot -> activation record
  started,        \* executeWithRetry calls started so far (history)
  \* ---- SimpleCache (SpecCache)
  scCache,        \* this.cache: key -> value
  scTimers,       \* this.timers: key -> timer handle
  pendingTimers,  \* Node's timer queue: the handles not yet fired or cleared
  timerSeq,       \* timer handles created so far
  scNow,          \* the clock, in ms
  lastSet,        \* history: key -> the time, ttl and value of the last set
                  \* and whether no delete or clear has removed it since
  lastGet,        \* history: the last get, its key, result and time
  \* ---- webhook handler and MessageCache (Spec)
  now,            \* Date.now()
  mcCache,        \* messageCache.cache: key -> entry
  req,            \* the requests in flight: slot -> activation record
  chan,           \* per request and channel: the delivery promise's state
  postLog,        \* history: per request and channel, the POSTs' outcomes
  response,       \* per request: the HTTP response sent, or NoResponse
  deliveries,     \* webhook requests received so far (history)
  scenario,       \* what the environment does: the requests that may overlap
                  \* and the bodies it sends
  mcCalls,        \* history: the direct calls of isDuplicate and
                  \* markAsProcessed, in order, with their results (SpecDedup)
  \* ---- POST /:channelID/message (SpecSend)
  sreq,           \* the request in flight: its inputs, position and response
  upstream,       \* history: the messages handed to DigiSac's POST /messages
  sendRequests,   \* requests received so far (history)
  \* ---- getChannelsByServiceId (SpecChannels)
  dcCache,        \* cache.cache at the keys channels:<serviceId>
  dcTimers,       \* cache.timers at those keys: when the timer is due
  dcStored,       \* history: serviceId -> the time and ttl of the last set
  dcNow,          \* the clock, in ms
  gcall,          \* the calls in flight: slot -> activation record
  gcCalls,        \* calls made so far (history)
  dirFetches,     \* callMessageTool calls made so far (history)
  \* ---- ReferaApiService (SpecDirectory)
  rfAccess,       \* whether this.accessToken holds a token
  rfExpiry,       \* this.tokenExpiry, in minutes of the clock
  rfLastAttempt,  \* this.lastLoginAttempt, or NoAttempt for null
  rfNow,          \* the clock, in minutes
  rcall,          \* the callMessageTool calls in flight: slot -> record
  rfCalls,        \* callMessageTool calls made from outside so far (history)
  lastFailure     \* history: when the last login failed, and whether no
                  \* login has succeeded since

retryVars == <<maxRetries, baseDelay, maxDelay, stats, ops, started>>
cacheVars == <<scCache, scTimers, pendingTimers, timerSeq, scNow, lastSet, lastGet>>
hookVars == <<now, mcCache, req, chan, postLog, response, deliveries, scenario,
              mcCalls>>
sendVars == <<sreq, upstream, sendRequests>>
dirVars == <<dcCache, dcTimers, dcStored, dcNow, gcall, gcCalls, dirFetches>>
referaVars == <<rfAccess, rfExpiry, rfLastAttempt, rfNow, rcall, rfCalls, lastFailure>>
routeVars == <<sendVars, dirVars, referaVars>>
vars == <<retryVars, cacheVars, hookVars, routeVars>>

(***************************************************************************)
(* RetryManager                                                            *)
(***************************************************************************)
Ops == {1, 2}

ZeroStats ==
  [totalOperations |-> 0, successOnFirstTry |-> 0, successWithRetry |-> 0,
   totalFailures |-> 0, retriesUsed |-> 0]

\* What one invocation of an operation ends in, as a record: whether it threw,
\* what it returned or threw, the HTTP status an error carries (0: none) and,
\* for an error executeHttpWithRetry wrapped, the error it wraps.
Outcome(t, w, s, c) == [thrown |-> t, what |-> w, status |-> s, cause |-> c]
NoOutcome == Outcome(FALSE, "none", 0, "none")
NoFailure == [attempts |-> 0, cause |-> NoOutcome]

IdleOp ==
  [pc |-> "idle", kind |-> "none", attempt |-> 0, calls |-> 0, waits |-> <<>>,
   lastError |-> NoOutcome, firstNonRetryable |-> FALSE, result |-> NoOutcome,
   failure |-> NoFailure]

\* new RetryManager(maxRetries, baseDelay, maxDelay)
RetryManagerInit(m, b, d) ==
  /\ maxRetries = m
  /\ baseDelay = b
  /\ maxDelay = d
  /\ stats = ZeroStats
  /\ ops = [o \in Ops |-> IdleOp]
  /\ started = 0

RECURSIVE Pow2(_)
Pow2(n) == IF n = 0 THEN 1 ELSE 2 * Pow2(n - 1)

Min(a, b) == IF a <= b THEN a ELSE b

\* a backoff without the ceiling
BackoffDelayUncapped(attempt) == baseDelay * Pow2(attempt - 1)

\* the wait after failed attempt `attempt`
BackoffDelay(attempt) == Min(baseDelay * Pow2(attempt - 1), maxDelay)

\* a loop that gives up one attempt early
MoreAttemptsOneShort(attempt) == attempt < maxRetries - 1

\* whether a further attempt follows failed attempt `attempt`
MoreAttempts(attempt) == attempt < maxRetries

\* What one invocation can end in. A plain operation returns or throws; an
\* HTTP operation returns a response with a 2xx status, an object with a
\* success flag, anything else, or throws an error that carries an HTTP status
\* or a network error code.
HttpStatuses == {400, 408, 429, 500}
PlainOutcomes == {Outcome(FALSE, "value", 0, "none"), Outcome(TRUE, "error", 0, "none")}
HttpOutcomes ==
  {Outcome(FALSE, "status2xx", 200, "none"), Outcome(FALSE, "successTrue", 0, "none"),
   Outcome(FALSE, "successFalse", 0, "none"), Outcome(FALSE, "other", 0, "none"),
   Outcome(TRUE, "network", 0, "none")}
    \cup {Outcome(TRUE, "http", s, "none") : s \in HttpStatuses}

\* RetryManager.isRetryableError
IsRetryableError(err) ==
  IF err.status # 0
    THEN err.status >= 500 \/ err.status = 429 \/ err.status = 408
    ELSE err.what = "network"

\* The operation executeHttpWithRetry hands to executeWithRetry: the outcome
\* of the wrapped call as executeWithRetry sees it.
HttpOperation(out) ==
  LET raised == IF out.thrown THEN out ELSE Outcome(TRUE, "apiError", 0, "none")
  IN IF ~out.thrown /\ out.what # "successFalse"
       THEN out
       ELSE IF IsRetryableError(raised)
              THEN raised
              ELSE Outcome(TRUE, "nonRecoverable", raised.status, raised.what)

\* the failures the classifier calls non-retryable, on the raw outcome
NonRetryable(out) ==
  \/ ~out.thrown /\ out.what = "successFalse"
  \/ out.thrown /\ ~IsRetryableError(out)

Seen(kind, out) == IF kind = "http" THEN HttpOperation(out) ELSE out

\* executeWithRetry up to the first await: the counter, the first invocation
RmStart(o, kind) ==
  /\ ops[o].pc \in {"idle", "returned", "thrown"}
  /\ \A p \in Ops : p < o => ops[p].pc # "idle"
  /\ started < MaxOps
  /\ started' = started + 1
  /\ stats' = [stats EXCEPT !.totalOperations = @ + 1]
  /\ ops' = [ops EXCEPT ![o] =
       [IdleOp EXCEPT !.pc = "invoking", !.kind = kind, !.attempt = 1, !.calls = 1]]
  /\ UNCHANGED <<maxRetries, baseDelay, maxDelay, cacheVars, hookVars, routeVars>>

\* a success after retries that adds the attempt number to retriesUsed
RmSuccessMiscounted(o, out) ==
  /\ stats' = IF ops[o].attempt = 1
                THEN [stats EXCEPT !.successOnFirstTry = @ + 1]
                ELSE [stats EXCEPT !.successWithRetry = @ + 1,
                                   !.retriesUsed = @ + ops[o].attempt]
  /\ ops' = [ops EXCEPT ![o].pc = "returned", ![o].result = out,
                         ![o].lastError = NoOutcome]

\* the awaited operation returns: lines 41-54
RmSuccess(o, out) ==
  /\ stats' = IF ops[o].attempt = 1
                THEN [stats EXCEPT !.successOnFirstTry = @ + 1]
                ELSE [stats EXCEPT !.successWithRetry = @ + 1,
                                   !.retriesUsed = @ + (ops[o].attempt - 1)]
  /\ ops' = [ops EXCEPT ![o].pc = "returned", ![o].result = out,
                         ![o].lastError = NoOutcome]

\* a terminal failure that is not tallied in totalFailures
RmFailureUntallied(o, err, raw) ==
  LET first == IF ops[o].attempt = 1 THEN NonRetryable(raw)
                                     ELSE ops[o].firstNonRetryable
  IN IF MoreAttempts(ops[o].attempt)
       THEN /\ ops' = [ops EXCEPT ![o].pc = "sleeping", ![o].lastError = err,
                                  ![o].firstNonRetryable = first,
                                  ![o].waits = Append(@, BackoffDelay(ops[o].attempt))]
            /\ UNCHANGED stats
       ELSE /\ ops' = [ops EXCEPT ![o].pc = "thrown", ![o].lastError = err,
                                  ![o].firstNonRetryable = first,
                                  ![o].failure = [attempts |-> maxRetries, cause |-> err]]
            /\ stats' = [stats EXCEPT !.retriesUsed = @ + (maxRetries - 1)]

\* the awaited operation throws: lines 56-80, and 83-93 after the last attempt
RmFailure(o, err, raw) ==
  LET first == IF ops[o].attempt = 1 THEN NonRetryable(raw)
                                     ELSE ops[o].firstNonRetryable
  IN IF MoreAttempts(ops[o].attempt)
       THEN /\ ops' = [ops EXCEPT ![o].pc = "sleeping", ![o].lastError = err,
                                  ![o].firstNonRetryable = first,
                                  ![o].waits = Append(@, BackoffDelay(ops[o].attempt))]
            /\ UNCHANGED stats
       ELSE /\ ops' = [ops EXCEPT ![o].pc = "thrown", ![o].lastError = err,
                                  ![o].firstNonRetryable = first,
                                  ![o].failure = [attempts |-> maxRetries, cause |-> err]]
            /\ stats' = [stats EXCEPT !.totalFailures = @ + 1,
                                      !.retriesUsed = @ + (maxRetries - 1)]

RmSettle(o) ==
  /\ ops[o].pc = "invoking"
  /\ \E raw \in IF ops[o].kind = "http" THEN HttpOutcomes ELSE PlainOutcomes :
       LET out == Seen(ops[o].kind, raw)
       IN IF out.thrown THEN RmFailure(o, out, raw) ELSE RmSuccess(o, out)
  /\ UNCHANGED <<maxRetries, baseDelay, maxDelay, started, cacheVars, hookVars, routeVars>>

\* the backoff timer fires: the loop's next iteration invokes the operation
RmWake(o) ==
  /\ ops[o].pc = "sleeping"
  /\ ops' = [ops EXCEPT ![o].pc = "invoking", ![o].attempt = @ + 1, ![o].calls = @ + 1]
  /\ UNCHANGED <<maxRetries, baseDelay, maxDelay, stats, started, cacheVars, hookVars, routeVars>>

\* RetryManager.resetStats
ResetStats ==
  /\ stats # ZeroStats
  /\ stats' = ZeroStats
  /\ UNCHANGED <<maxRetries, baseDelay, maxDelay, ops, started, cacheVars, hookVars, routeVars>>

RetryNext ==
  \/ \E o \in Ops, kind \in {"plain", "http"} : RmStart(o, kind)
  \/ \E o \in Ops : RmSettle(o)
  \/ \E o \in Ops : RmWake(o)
  \/ ResetStats

(***************************************************************************)
(* SimpleCache, with the timers of the Node event loop: a timer's callback *)
(* runs at some turn of the loop after its delay has elapsed, and other    *)
(* callbacks (a get among them) may run in between.                        *)
(***************************************************************************)
ScKeys == {"channels:S1", "contact:c1"}
ScValues == {"v1", "v2"}
ScTtls == {ChannelsTtl, ContactTtl}
Absent == "absent"
CacheTickMs == ChannelsTtl \div 2
NoTimer == 0

\* new SimpleCache()
SimpleCacheInit ==
  /\ scCache = [k \in ScKeys |-> Absent]
  /\ scTimers = [k \in ScKeys |-> NoTimer]
  /\ pendingTimers = {}
  /\ timerSeq = 0
  /\ scNow = 0
  /\ lastSet = [k \in ScKeys |-> [at |-> 0, ttl |-> 0, done |-> FALSE,
                                  value |-> Absent, kept |-> FALSE]]
  /\ lastGet = [key |-> "none", value |-> Absent, expired |-> FALSE]

\* a clearTimeout that cancels nothing
ClearTimeoutForgotten(queue, handle) == queue

\* clearTimeout(handle)
ClearTimeout(queue, handle) == {t \in queue : t.id # handle}

\* a set that schedules the new expiry without cancelling the pending one
ScSetKeepingTimer(k, v, ttlMs) ==
  /\ timerSeq < MaxSets
  /\ timerSeq' = timerSeq + 1
  /\ scCache' = [scCache EXCEPT ![k] = v]
  /\ pendingTimers' =
       pendingTimers
         \cup {[id |-> timerSeq + 1, key |-> k, due |-> scNow + ttlMs]}
  /\ scTimers' = [scTimers EXCEPT ![k] = timerSeq + 1]
  /\ lastSet' = [lastSet EXCEPT ![k] = [at |-> scNow, ttl |-> ttlMs, done |-> TRUE,
                                        value |-> v, kept |-> TRUE]]
  /\ UNCHANGED <<scNow, lastGet, retryVars, hookVars, routeVars>>

\* SimpleCache.set
ScSet(k, v, ttlMs) ==
  /\ timerSeq < MaxSets
  /\ timerSeq' = timerSeq + 1
  /\ scCache' = [scCache EXCEPT ![k] = v]
  /\ pendingTimers' =
       (IF scTimers[k] # NoTimer THEN ClearTimeout(pendingTimers, scTimers[k])
                                 ELSE pendingTimers)
         \cup {[id |-> timerSeq + 1, key |-> k, due |-> scNow + ttlMs]}
  /\ scTimers' = [scTimers EXCEPT ![k] = timerSeq + 1]
  /\ lastSet' = [lastSet EXCEPT ![k] = [at |-> scNow, ttl |-> ttlMs, done |-> TRUE,
                                        value |-> v, kept |-> TRUE]]
  /\ UNCHANGED <<scNow, lastGet, retryVars, hookVars, routeVars>>

\* whether the ttl of the last set of key k has elapsed
TtlElapsed(k) == lastSet[k].done /\ scNow - lastSet[k].at >= lastSet[k].ttl

\* SimpleCache.get: the stored value, Absent standing for null
ScLookup(k) == scCache[k]

ScGet(k) ==
  /\ lastGet' = [key |-> k, value |-> ScLookup(k), expired |-> TtlElapsed(k)]
  /\ UNCHANGED <<scCache, scTimers, pendingTimers, timerSeq, scNow, lastSet, retryVars, hookVars, routeVars>>

\* a delete that removes the value and leaves the key's timer
ScDeleteLeavingTimer(k) ==
  /\ scCache[k] # Absent \/ scTimers[k] # NoTimer
  /\ scCache' = [scCache EXCEPT ![k] = Absent]
  /\ lastSet' = [lastSet EXCEPT ![k].kept = FALSE]
  /\ UNCHANGED <<scTimers, pendingTimers, timerSeq, scNow, lastGet, retryVars, hookVars, routeVars>>

\* SimpleCache.delete
ScDelete(k) ==
  /\ scCache[k] # Absent \/ scTimers[k] # NoTimer
  /\ pendingTimers' = IF scTimers[k] # NoTimer
                        THEN ClearTimeout(pendingTimers, scTimers[k])
                        ELSE pendingTimers
  /\ scTimers' = [scTimers EXCEPT ![k] = NoTimer]
  /\ scCache' = [scCache EXCEPT ![k] = Absent]
  /\ lastSet' = [lastSet EXCEPT ![k].kept = FALSE]
  /\ UNCHANGED <<timerSeq, scNow, lastGet, retryVars, hookVars, routeVars>>

\* SimpleCache.clear
ScClear ==
  /\ \E k \in ScKeys : scCache[k] # Absent
  /\ pendingTimers' = {t \in pendingTimers : \A k \in ScKeys : scTimers[k] # t.id}
  /\ scCache' = [k \in ScKeys |-> Absent]
  /\ scTimers' = [k \in ScKeys |-> NoTimer]
  /\ lastSet' = [k \in ScKeys |-> [lastSet[k] EXCEPT !.kept = FALSE]]
  /\ UNCHANGED <<timerSeq, scNow, lastGet, retryVars, hookVars, routeVars>>

\* the expiry callback set() hands to setTimeout, run by the event loop
ScExpire(t) ==
  /\ t \in pendingTimers
  /\ scNow >= t.due
  /\ pendingTimers' = pendingTimers \ {t}
  /\ scCache' = [scCache EXCEPT ![t.key] = Absent]
  /\ scTimers' = [scTimers EXCEPT ![t.key] = NoTimer]
  /\ UNCHANGED <<timerSeq, scNow, lastSet, lastGet, retryVars, hookVars, routeVars>>

\* time passes
ScTick ==
  /\ scNow < MaxCacheTicks * CacheTickMs
  /\ scNow' = scNow + CacheTickMs
  /\ UNCHANGED <<scCache, scTimers, pendingTimers, timerSeq, lastSet, lastGet, retryVars, hookVars, routeVars>>

CacheNext ==
  \/ \E k \in ScKeys, v \in ScValues, ttlMs \in ScTtls : ScSet(k, v, ttlMs)
  \/ \E k \in ScKeys : ScGet(k)
  \/ \E k \in ScKeys : ScDelete(k)
  \/ ScClear
  \/ \E t \in pendingTimers : ScExpire(t)
  \/ ScTick

(***************************************************************************)
(* MessageCache and the POST /digisac/webhook handler.                     *)
(*                                                                         *)
(* The handler is cut at its awaits: an action is the code that runs from  *)
(* one suspension point to the next. The resolvers it awaits (the channel  *)
(* directory, the contact profile, the message detail) answer as the       *)
(* environment decides; each delivery to a channel goes through the        *)
(* RetryManager's loop, one POST per attempt. The observational counters   *)
(* (retryManager.stats, messageCache.stats) are left to SpecRetry.         *)
(***************************************************************************)
Requests == {1, 2}
Channels == 1..NumChannels
TickMs == MessageCacheTtl \div 2

\* req.body: the fields of the webhook body the handler reads. ts is
\* data.timestamp (0: absent), fileUrl is data.file.url, filesUrl is
\* data.files[0].url, phone says that a field of data holds a valid number.
BaseBody ==
  [event |-> "message.created", hasData |-> TRUE, id |-> "m1", from |-> "c1",
   type |-> "text", ts |-> 1700, service |-> "S1", fileUrl |-> FALSE,
   filesUrl |-> FALSE, fromMe |-> FALSE, text |-> "hi", phone |-> TRUE]

Bodies ==
  {BaseBody,
   [BaseBody EXCEPT !.event = "none"],
   [BaseBody EXCEPT !.event = "ticket.updated"],
   [BaseBody EXCEPT !.hasData = FALSE],
   [BaseBody EXCEPT !.id = "none"],
   [BaseBody EXCEPT !.ts = 0],
   [BaseBody EXCEPT !.type = "ticket"],
   [BaseBody EXCEPT !.type = "image"],
   [BaseBody EXCEPT !.type = "image", !.fileUrl = TRUE, !.filesUrl = TRUE],
   [BaseBody EXCEPT !.type = "image", !.fileUrl = TRUE],
   [BaseBody EXCEPT !.type = "image", !.filesUrl = TRUE],
   [BaseBody EXCEPT !.type = "video"],
   [BaseBody EXCEPT !.service = "none"],
   [BaseBody EXCEPT !.service = "S2"],
   [BaseBody EXCEPT !.fromMe = TRUE],
   [BaseBody EXCEPT !.text = ""],
   [BaseBody EXCEPT !.phone = FALSE]}

\* MessageCache.generateKey at time t: the message id, the sender, the
\* timestamp field or else the clock, and the content's first 50 characters
GenerateKey(body, t) ==
  [id |-> body.id, from |-> body.from,
   stamp |-> IF body.ts # 0 THEN body.ts ELSE t, content |-> body.text]

\* MessageCache.isDuplicate at time t
IsDuplicate(body, t) ==
  LET key == GenerateKey(body, t)
  IN key \in DOMAIN mcCache /\ (t - mcCache[key].timestamp) < MessageCacheTtl

\* MessageCache.cleanup at time t
Cleanup(cache, t) ==
  LET keep == {k \in DOMAIN cache : ~(t - cache[k].timestamp > MessageCacheTtl)}
  IN [k \in keep |-> cache[k]]

\* MessageCache.markAsProcessed at time t: the entry stored under the key (of
\* the entry's fields the timestamp, and as history the event it was made for)
MarkAsProcessed(body, t) ==
  LET stored == (GenerateKey(body, t) :> [timestamp |-> t, event |-> body]) @@ mcCache
  IN IF Cardinality(DOMAIN stored) % 50 = 0 THEN Cleanup(stored, t) ELSE stored

NoResponse ==
  [code |-> 0, status |-> "none", dataStatus |-> "none", tag |-> "none",
   channelsProcessed |-> 0, successCount |-> 0, errorCount |-> 0]

\* res.status(code).json(body): status is the body's status field ("absent"
\* when the body has none), dataStatus its data.status, tag the branch
Reply(code, status, tag) ==
  [NoResponse EXCEPT !.code = code, !.status = status, !.dataStatus = "absent",
                     !.tag = tag]

\* formatErrorResponse: {error: {message, details}}
FormatErrorResponse(code, tag) == Reply(code, "absent", tag)

\* formatSuccessResponse(data): {status: 'success', message, data}
FormatSuccessResponse(tag, dataStatus) ==
  [Reply(200, "success", tag) EXCEPT !.dataStatus = dataStatus]

\* the handler's catch block
InternalError == FormatErrorResponse(200, "internal_error")

\* Whether a read of startTime at `line` of the try block throws: the block
\* declares its own const startTime, which is uninitialised above that line
StartTimeUninitialised(line) == line < InnerStartTimeLine

\* the duplicate branch, lines 689-702
DuplicateResponse ==
  IF StartTimeUninitialised(DuplicateBranchLine)
    THEN InternalError
    ELSE FormatSuccessResponse("duplicate", "ignored")

\* validateDigiSacWebhook: the status it answers with, 0 when the body is valid
ValidateDigiSacWebhook(body) ==
  IF body.event = "none" \/ ~body.hasData THEN 400 ELSE 0

\* a handler without the ticket filter
IsTicketNever(messageType) == FALSE

\* messageType === 'ticket', lines 736-747
IsTicket(messageType) == messageType = "ticket"

\* a handler that goes on without channels
NoChannelsNever(channelConfigs) == FALSE

\* !channelConfigs || channelConfigs.length === 0, line 778
NoChannels(channelConfigs) == channelConfigs = {}

\* eventType.includes('message.')
IsMessageEvent(event) == event = "message.created"

\* a normalisation that drops a media message whose file cannot be processed
ProcessDigiSacMessageDropping(type, text, filesUrl) ==
  IF type = "ticket" \/ (type \notin {"chat", "text"} /\ ~filesUrl)
    THEN [ignored |-> TRUE, emptyBody |-> TRUE, kind |-> "none"]
    ELSE IF type \in {"chat", "text"}
      THEN [ignored |-> FALSE, emptyBody |-> text = "", kind |-> "text"]
      ELSE [ignored |-> FALSE, emptyBody |-> FALSE, kind |-> "attachment"]

\* RespondIoApiService.processDigiSacMessage with processDigiSacFile: whether
\* the message is ignored, whether messageBody is empty, and the kind of the
\* processed message
ProcessDigiSacMessage(type, text, filesUrl) ==
  IF type = "ticket"
    THEN [ignored |-> TRUE, emptyBody |-> TRUE, kind |-> "none"]
    ELSE IF type \in {"chat", "text"}
      THEN [ignored |-> FALSE, emptyBody |-> text = "", kind |-> "text"]
      ELSE IF type \in {"image", "audio", "ptt", "document", "video"} /\ filesUrl
        THEN [ignored |-> FALSE, emptyBody |-> FALSE, kind |-> "attachment"]
        ELSE [ignored |-> FALSE, emptyBody |-> FALSE, kind |-> "fallback"]

\* A contact identifier, by what the handler tests of the string: how it
\* starts ("+", "55" or something else) and its length
ContactId(lead, len) == [lead |-> lead, len |-> len]
NoContact == ContactId("none", 0)

\* what the webhook, the contact cache or the profile may hold as the number:
\* "+5511999999999", "5511999999999", "11999999999", and a short identifier
ContactNumbers ==
  {ContactId("+", 14), ContactId("55", 13), ContactId("other", 11),
   ContactId("other", 2)}

\* the number in the webhook's fields when one of them holds a valid number
WebhookNumber == ContactId("other", 11)

\* contactIdToUse: messageData.from or contactId, the raw identifier ("c1")
RawContactId(body) == ContactId("other", Len(body.from))

\* normalizePhoneNumber, lines 851-860, on a string of digits
NormalizePhoneNumber(id) ==
  IF id.lead = "55" THEN ContactId("+", id.len + 1)
  ELSE IF id.len >= 10 THEN ContactId("+", id.len + 3)
  ELSE id

\* lines 991-997, and again formatMessageForRespondIo lines 138-146
EnsureCountryCode(id) ==
  IF id.lead \in {"+", "none"} THEN id
  ELSE IF id.lead = "55" THEN ContactId("+", id.len + 1)
  ELSE IF id.len >= 10 THEN ContactId("+", id.len + 3)
  ELSE id

\* a lookup whose failure leaves contactPhoneNumber unset
ContactAfterLookupUnset(got, raw) == got

\* contactPhoneNumber after the profile lookup, lines 933-983: the profile's
\* number, or the raw identifier when the lookup failed or brought no data
ContactAfterLookup(got, raw) == IF got = NoContact THEN raw ELSE got

IdleChan == [st |-> "idle", attempt |-> 0]
\* A handler activation: where it is, the body, channelConfigs, the asset
\* fields of messageData, and as history whether isDuplicate returned true,
\* whether the event had been marked, whether this request marked it, what
\* each re-query of the message detail returned, contactPhoneNumber and where
\* it came from ("cache", "found", "failed": the raw identifier), and what the
\* request's calls of isDuplicate returned
IdleRequest ==
  [pc |-> "idle", body |-> BaseBody, channels |-> {}, fileUrl |-> FALSE,
   filesUrl |-> FALSE, dupHit |-> FALSE, redelivery |-> FALSE, marked |-> FALSE,
   polls |-> <<>>, contact |-> NoContact, lookup |-> "none", dupCalls |-> <<>>]

HookInit ==
  /\ now = 0
  /\ mcCache = <<>>
  /\ req = [r \in Requests |-> IdleRequest]
  /\ chan = [r \in Requests |-> [c \in Channels |-> IdleChan]]
  /\ postLog = [r \in Requests |-> [c \in Channels |-> <<>>]]
  /\ response = [r \in Requests |-> NoResponse]
  /\ deliveries = 0
  /\ mcCalls = <<>>

\* history: the event of `body` has been marked processed and the entry made
\* for it is in the cache, younger than the TTL, at time t
MarkedWithinTtl(body, t) ==
  \E k \in DOMAIN mcCache : /\ mcCache[k].event = body
                            /\ t - mcCache[k].timestamp < MessageCacheTtl

\* ---- the ways a run of the handler ends: a response, or an await
Respond(r, rq, resp, ch, pl) ==
  /\ req' = [req EXCEPT ![r] = [rq EXCEPT !.pc = "done"]]
  /\ response' = [response EXCEPT ![r] = resp]
  /\ chan' = [chan EXCEPT ![r] = ch]
  /\ postLog' = [postLog EXCEPT ![r] = pl]

Await(r, rq, pc, ch, pl) ==
  /\ req' = [req EXCEPT ![r] = [rq EXCEPT !.pc = pc]]
  /\ response' = [response EXCEPT ![r] = NoResponse]
  /\ chan' = [chan EXCEPT ![r] = ch]
  /\ postLog' = [postLog EXCEPT ![r] = pl]

\* channelConfigs.map(async ...): every channel's callback runs up to its first
\* POST, lines 1226-1308, then the handler awaits Promise.all
StartFanout(r, rq, pl) ==
  /\ req' = [req EXCEPT ![r] = [rq EXCEPT !.pc = "fanout"]]
  /\ response' = [response EXCEPT ![r] = NoResponse]
  /\ chan' = [chan EXCEPT ![r] =
       [c \in Channels |-> IF c \in rq.channels
                             THEN [st |-> "posting", attempt |-> 1] ELSE IdleChan]]
  /\ postLog' = [postLog EXCEPT ![r] = pl]

\* lines 1178-1218: normalisation and the checks before the fan-out
Normalize(r, rq, ch, pl) ==
  LET p == ProcessDigiSacMessage(rq.body.type, rq.body.text, rq.filesUrl)
  IN IF p.ignored
       THEN Respond(r, rq, Reply(200, "ignored", "processing_ignored"), ch, pl)
       ELSE IF rq.body.id = "none" \/ rq.body.from = "none"
         THEN Respond(r, rq, Reply(200, "error", "incomplete"), ch, pl)
         ELSE IF p.emptyBody
           \* messageBody = ... assigns to a const: TypeError
           THEN Respond(r, rq, InternalError, ch, pl)
           ELSE StartFanout(r, rq, pl)

\* lines 991-1081: the final normalisation of contactPhoneNumber and the
\* early returns after the contact is resolved
AfterContact(r, rq0, ch, pl) ==
  LET rq == [rq0 EXCEPT !.contact = EnsureCountryCode(@)]
  IN IF rq.body.event = "none" \/ ~rq.body.hasData
    THEN Respond(r, rq, Reply(200, "ignored", "no_data"), ch, pl)
    ELSE IF ~IsMessageEvent(rq.body.event)
      THEN Respond(r, rq, Reply(200, "ignored", "not_message"), ch, pl)
      ELSE IF rq.body.type \in {"image", "audio", "ptt", "document"} /\ ~rq.fileUrl
        THEN Respond(r, rq, Reply(200, "ignored", "no_file"), ch, pl)
        ELSE IF rq.body.type = "video" /\ ~rq.fileUrl
          THEN Await(r, rq, "pollwait1", ch, pl)
          ELSE Normalize(r, rq, ch, pl)

\* lines 778-989: the channels are known; the contact's number comes from the
\* webhook, from the contact cache (cached, NoContact on a miss) or from an
\* awaited lookup
AfterChannels(r, rq, cached, ch, pl) ==
  IF NoChannels(rq.channels)
    THEN Respond(r, rq, Reply(200, "ignored", "no_channels"), ch, pl)
    ELSE IF ~rq.body.fromMe /\ rq.body.phone
      THEN AfterContact(r, [rq EXCEPT !.contact = NormalizePhoneNumber(WebhookNumber)],
                        ch, pl)
      ELSE IF cached # NoContact
        THEN AfterContact(r, [rq EXCEPT !.contact = cached, !.lookup = "cache"], ch, pl)
        ELSE Await(r, rq, "contact", ch, pl)

\* a handler that marks the event as processed as soon as it arrives
ReceiveMarking(r, body) ==
  /\ deliveries < MaxDeliveries
  /\ r \in scenario.slots
  /\ body \in scenario.bodies
  /\ req[r].pc \in {"idle", "done"}
  /\ \A q \in Requests : q < r => req[q].pc \notin {"idle", "done"}
  /\ deliveries' = deliveries + 1
  /\ LET ch == [c \in Channels |-> IdleChan]
         pl == [c \in Channels |-> <<>>]
         rq == [IdleRequest EXCEPT !.body = body, !.fileUrl = body.fileUrl,
                                   !.filesUrl = body.filesUrl,
                                   !.redelivery = MarkedWithinTtl(body, now),
                                   !.dupCalls = IF body.hasData
                                                  THEN <<IsDuplicate(body, now)>>
                                                  ELSE <<>>]
     IN IF ~body.hasData
          \* generateKey reads a field of undefined: TypeError
          THEN Respond(r, rq, InternalError, ch, pl)
          ELSE IF IsDuplicate(body, now)
            THEN Respond(r, [rq EXCEPT !.dupHit = TRUE], DuplicateResponse, ch, pl)
            ELSE IF ValidateDigiSacWebhook(body) # 0
              THEN Respond(r, rq, FormatErrorResponse(ValidateDigiSacWebhook(body), "invalid"),
                           ch, pl)
              ELSE IF IsTicket(body.type)
                THEN Respond(r, rq, Reply(200, "ignored", "ticket"), ch, pl)
                ELSE IF body.service = "none"
                  THEN AfterChannels(r, rq, NoContact, ch, pl)
                  ELSE Await(r, rq, "channels", ch, pl)
  /\ mcCache' = MarkAsProcessed(body, now)
  /\ UNCHANGED <<now, scenario, mcCalls, retryVars, cacheVars, routeVars>>

\* lines 636-776: a request arrives; the handler runs to its first await
Receive(r, body) ==
  /\ deliveries < MaxDeliveries
  /\ r \in scenario.slots
  /\ body \in scenario.bodies
  /\ req[r].pc \in {"idle", "done"}
  /\ \A q \in Requests : q < r => req[q].pc \notin {"idle", "done"}
  /\ deliveries' = deliveries + 1
  /\ LET ch == [c \in Channels |-> IdleChan]
         pl == [c \in Channels |-> <<>>]
         rq == [IdleRequest EXCEPT !.body = body, !.fileUrl = body.fileUrl,
                                   !.filesUrl = body.filesUrl,
                                   !.redelivery = MarkedWithinTtl(body, now),
                                   !.dupCalls = IF body.hasData
                                                  THEN <<IsDuplicate(body, now)>>
                                                  ELSE <<>>]
     IN IF ~body.hasData
          \* generateKey reads a field of undefined: TypeError
          THEN Respond(r, rq, InternalError, ch, pl)
          ELSE IF IsDuplicate(body, now)
            THEN Respond(r, [rq EXCEPT !.dupHit = TRUE], DuplicateResponse, ch, pl)
            ELSE IF ValidateDigiSacWebhook(body) # 0
              THEN Respond(r, rq, FormatErrorResponse(ValidateDigiSacWebhook(body), "invalid"),
                           ch, pl)
              ELSE IF IsTicket(body.type)
                THEN Respond(r, rq, Reply(200, "ignored", "ticket"), ch, pl)
                ELSE IF body.service = "none"
                  THEN AfterChannels(r, rq, NoContact, ch, pl)
                  ELSE Await(r, rq, "channels", ch, pl)
  /\ UNCHANGED <<now, mcCache, scenario, mcCalls, retryVars, cacheVars, routeVars>>

\* a handler that marks the event once its channels have been looked up
ChannelsResolvedMarking(r) ==
  /\ req[r].pc = "channels"
  /\ \E found \in {{}, IF req[r].body.service = "S1" THEN Channels ELSE {}},
        cached \in {NoContact} \cup ContactNumbers :
       AfterChannels(r, [req[r] EXCEPT !.channels = found], cached, chan[r], postLog[r])
  /\ mcCache' = MarkAsProcessed(req[r].body, now)
  /\ UNCHANGED <<now, deliveries, scenario, mcCalls, retryVars, cacheVars, routeVars>>

\* getChannelsByServiceId returns: the channels subscribed to the service, or
\* none when the directory fails
ChannelsResolved(r) ==
  /\ req[r].pc = "channels"
  /\ \E found \in {{}, IF req[r].body.service = "S1" THEN Channels ELSE {}},
        cached \in {NoContact} \cup ContactNumbers :
       AfterChannels(r, [req[r] EXCEPT !.channels = found], cached, chan[r], postLog[r])
  /\ UNCHANGED <<now, mcCache, deliveries, scenario, mcCalls, retryVars, cacheVars, routeVars>>

\* executeHttpWithRetry(getContactProfile) returns the profile, returns no
\* data, or throws after its retries: lines 924-983
ContactResolved(r) ==
  /\ req[r].pc = "contact"
  /\ \E got \in {NoContact} \cup ContactNumbers :
       AfterContact(r, [req[r] EXCEPT
                          !.contact = ContactAfterLookup(got, RawContactId(req[r].body)),
                          !.lookup = IF got = NoContact THEN "failed" ELSE "found"],
                    chan[r], postLog[r])
  /\ UNCHANGED <<now, mcCache, deliveries, scenario, mcCalls, retryVars, cacheVars, routeVars>>

\* the fixed delay before a re-query has elapsed: the re-query is issued
PollDelayElapsed(r) ==
  /\ req[r].pc \in {"pollwait1", "pollwait2"}
  /\ req' = [req EXCEPT ![r].pc = IF @ = "pollwait1" THEN "poll1" ELSE "poll2"]
  /\ UNCHANGED <<now, mcCache, chan, postLog, response, deliveries, scenario,
                 mcCalls, retryVars, cacheVars, routeVars>>

\* a poller that re-queries after any first re-query that brought no asset
PollAgainUnlessAsset(got, pc) == got # "asset" /\ pc = "poll1"

\* whether the second re-query follows: the first returned data without
\* file.url, lines 1093-1119
PollAgain(got, pc) == got = "pending" /\ pc = "poll1"

\* executeHttpWithRetry(getMessageWithFile) settles: with a payload that has
\* file.url ("asset", with or without a files array), with a payload without
\* it ("pending"), without data, or by throwing after its retries ("failed")
PollSettled(r) ==
  /\ req[r].pc \in {"poll1", "poll2"}
  /\ \E got \in {"asset", "pending", "failed"}, files \in BOOLEAN :
       LET rq == [req[r] EXCEPT !.polls = Append(@, got)]
       IN IF got = "asset"
            THEN Normalize(r, [rq EXCEPT !.fileUrl = TRUE, !.filesUrl = files],
                           chan[r], postLog[r])
            ELSE /\ ~files
                 /\ IF PollAgain(got, req[r].pc)
                      THEN Await(r, rq, "pollwait2", chan[r], postLog[r])
                      ELSE Normalize(r, rq, chan[r], postLog[r])
  /\ UNCHANGED <<now, mcCache, deliveries, scenario, mcCalls, retryVars, cacheVars, routeVars>>

\* sendMessageWithChannelToken: what it returns for the downstream's reply
SendMessageWithChannelToken(reply) ==
  IF reply >= 200 /\ reply < 300
    THEN Outcome(FALSE, "status2xx", reply, "none")
    ELSE Outcome(FALSE, "successFalse", 0, "none")

\* A channel's result once executeHttpWithRetry has settled for it, lines
\* 1312-1335: success iff the retry loop returned
ChannelSettled(delivered) == [st |-> IF delivered THEN "ok" ELSE "failed"]

\* the POST of one attempt of channel c is answered
PostSettles(r, c, reply) ==
  /\ req[r].pc = "fanout"
  /\ chan[r][c].st = "posting"
  /\ postLog' = [postLog EXCEPT ![r][c] = Append(@, reply)]
  /\ LET out == HttpOperation(SendMessageWithChannelToken(reply))
         att == chan[r][c].attempt
     IN chan' = [chan EXCEPT ![r][c] =
          IF ~out.thrown
            THEN [st |-> ChannelSettled(TRUE).st, attempt |-> att]
            ELSE IF MoreAttempts(att)
              THEN [st |-> "backoff", attempt |-> att]
              ELSE [st |-> ChannelSettled(FALSE).st, attempt |-> att]]
  /\ UNCHANGED <<now, mcCache, req, response, deliveries, scenario, mcCalls, retryVars, cacheVars, routeVars>>

\* the backoff of channel c has elapsed: its next attempt is posted
BackoffElapsed(r, c) ==
  /\ req[r].pc = "fanout"
  /\ chan[r][c].st = "backoff"
  /\ chan' = [chan EXCEPT ![r][c] = [st |-> "posting", attempt |-> @.attempt + 1]]
  /\ UNCHANGED <<now, mcCache, req, postLog, response, deliveries, scenario,
                 mcCalls, retryVars, cacheVars, routeVars>>

\* a join that resolves with the first delivery to settle (Promise.race)
FanoutFirstSettled(r) == \E c \in req[r].channels : chan[r][c].st \in {"ok", "failed"}

\* a join that waits until every channel's delivery has succeeded
FanoutAllDelivered(r) == \A c \in req[r].channels : chan[r][c].st = "ok"

\* Promise.all(channelPromises) resolves
FanoutSettled(r) == \A c \in req[r].channels : chan[r][c].st \in {"ok", "failed"}

\* an aggregation that stops counting at the first failed result
SuccessCountUntilFailure(r) ==
  Cardinality({c \in req[r].channels :
                 /\ chan[r][c].st = "ok"
                 /\ \A d \in req[r].channels : d < c => chan[r][d].st = "ok"})

\* lines 1345-1370: the loop over allResults
SuccessCount(r) == Cardinality({c \in req[r].channels : chan[r][c].st = "ok"})
ErrorCount(r) == Cardinality({c \in req[r].channels : chan[r][c].st # "ok"})

\* lines 1341-1412: the join, the aggregation, markAsProcessed, the response
Join(r) ==
  /\ req[r].pc = "fanout"
  /\ FanoutSettled(r)
  /\ mcCache' = MarkAsProcessed(req[r].body, now)
  /\ req' = [req EXCEPT ![r].pc = "done",
                         ![r].marked = GenerateKey(req[r].body, now) \in
                                         DOMAIN MarkAsProcessed(req[r].body, now)]
  /\ response' = [response EXCEPT ![r] =
       IF StartTimeUninitialised(AcknowledgeLine)
         THEN InternalError
         ELSE [FormatSuccessResponse("processed", "absent") EXCEPT
                 !.channelsProcessed = Cardinality(req[r].channels),
                 !.successCount = SuccessCount(r),
                 !.errorCount = ErrorCount(r)]]
  /\ UNCHANGED <<now, chan, postLog, deliveries, scenario, mcCalls, retryVars, cacheVars, routeVars>>

\* the sweep MessageCache schedules with setInterval
McCleanup ==
  /\ Cleanup(mcCache, now) # mcCache
  /\ mcCache' = Cleanup(mcCache, now)
  /\ UNCHANGED <<now, req, chan, postLog, response, deliveries, scenario,
                 mcCalls, retryVars, cacheVars, routeVars>>

\* POST /cache/clear: MessageCache.clear
McClear ==
  /\ DOMAIN mcCache # {}
  /\ mcCache' = <<>>
  /\ UNCHANGED <<now, req, chan, postLog, response, deliveries, scenario,
                 mcCalls, retryVars, cacheVars, routeVars>>

\* time passes
Tick ==
  /\ now < MaxTicks * TickMs
  /\ now' = now + TickMs
  /\ UNCHANGED <<mcCache, req, chan, postLog, response, deliveries, scenario,
                 mcCalls, retryVars, cacheVars, routeVars>>

DownstreamReplies == {200, 500}

Next ==
  \/ \E r \in Requests, body \in Bodies : Receive(r, body)
  \/ \E r \in Requests : ChannelsResolved(r)
  \/ \E r \in Requests : ContactResolved(r)
  \/ \E r \in Requests : PollDelayElapsed(r)
  \/ \E r \in Requests : PollSettled(r)
  \/ \E r \in Requests, c \in Channels, reply \in DownstreamReplies : PostSettles(r, c, reply)
  \/ \E r \in Requests, c \in Channels : BackoffElapsed(r, c)
  \/ \E r \in Requests : Join(r)
  \/ McCleanup
  \/ McClear
  \/ Tick

\* two deliveries of one event whose handling overlaps; the downstream
\* accepts every POST and the clock stands still while they run
OverlapNext ==
  \/ \E r \in Requests : Receive(r, BaseBody)
  \/ \E r \in Requests : ChannelsResolved(r)
  \/ \E r \in Requests, c \in Channels : PostSettles(r, c, 200)
  \/ \E r \in Requests : Join(r)

\* one delivery's fan-out against a downstream that accepts a POST, rejects
\* it for good (400) or fails for a while (500)
FanoutReplies == {200, 400, 500}

FanoutNext ==
  \/ \E r \in Requests : Receive(r, BaseBody)
  \/ \E r \in Requests : ChannelsResolved(r)
  \/ \E r \in Requests, c \in Channels, reply \in FanoutReplies : PostSettles(r, c, reply)
  \/ \E r \in Requests, c \in Channels : BackoffElapsed(r, c)
  \/ \E r \in Requests : Join(r)

\* what the handler awaits settles: a resolver answers, a delay elapses, a
\* POST is answered, the join resolves
Settles ==
  \/ \E r \in Requests : ChannelsResolved(r)
  \/ \E r \in Requests : ContactResolved(r)
  \/ \E r \in Requests : PollDelayElapsed(r)
  \/ \E r \in Requests : PollSettled(r)
  \/ \E r \in Requests, c \in Channels, reply \in DownstreamReplies : PostSettles(r, c, reply)
  \/ \E r \in Requests, c \in Channels : BackoffElapsed(r, c)
  \/ \E r \in Requests : Join(r)

\* the handler's requests from arrival to response, the clock standing still
LiveNext ==
  \/ \E r \in Requests, body \in Bodies : Receive(r, body)
  \/ \E r \in Requests : ChannelsResolved(r)
  \/ \E r \in Requests : ContactResolved(r)
  \/ \E r \in Requests : PollDelayElapsed(r)
  \/ \E r \in Requests : PollSettled(r)
  \/ \E r \in Requests, c \in Channels, reply \in DownstreamReplies : PostSettles(r, c, reply)
  \/ \E r \in Requests, c \in Channels : BackoffElapsed(r, c)
  \/ \E r \in Requests : Join(r)

(***************************************************************************)
(* MessageCache on its own: its methods called directly, as the handler    *)
(* and the debug routes call them, with the clock advancing in between.    *)
(***************************************************************************)
\* the events (req.body.data) the methods are called with
DedupEvents ==
  {BaseBody, [BaseBody EXCEPT !.ts = 0], [BaseBody EXCEPT !.id = "m2"]}

\* messageCache.isDuplicate(messageData): reads the cache, stores nothing
McIsDuplicate(body) ==
  /\ Len(mcCalls) < MaxCalls
  /\ mcCalls' = Append(mcCalls,
       [op |-> "isDuplicate", body |-> body, at |-> now,
        known |-> GenerateKey(body, now) \in DOMAIN mcCache,
        result |-> IsDuplicate(body, now)])
  /\ UNCHANGED <<now, mcCache, req, chan, postLog, response, deliveries, scenario,
                 retryVars, cacheVars, routeVars>>

\* messageCache.markAsProcessed(messageData)
McMarkAsProcessed(body) ==
  /\ Len(mcCalls) < MaxCalls
  /\ mcCache' = MarkAsProcessed(body, now)
  /\ mcCalls' = Append(mcCalls,
       [op |-> "markAsProcessed", body |-> body, at |-> now,
        known |-> GenerateKey(body, now) \in DOMAIN mcCache,
        result |-> FALSE])
  /\ UNCHANGED <<now, req, chan, postLog, response, deliveries, scenario,
                 retryVars, cacheVars, routeVars>>

DedupNext ==
  \/ \E body \in DedupEvents : McIsDuplicate(body)
  \/ \E body \in DedupEvents : McMarkAsProcessed(body)
  \/ McCleanup
  \/ McClear
  \/ Tick

(***************************************************************************)
(* POST /:channelID/message: a message of respond.io sent through DigiSac. *)
(* The handler is cut at its awaits: the channel directory, the download   *)
(* of an attachment, DigiSac's POST /messages.                             *)
(***************************************************************************)
\* strings the handler cuts, as sequences of characters
BearerPrefix == <<"B", "e", "a", "r", "e", "r", " ">>
TokenOne == <<"t", "1">>
TokenTwo == <<"t", "2">>

\* String.prototype.substring(start, s.length)
Substring(str, start) == SubSeq(str, start + 1, Len(str))

\* the upstream-integration directory: /connections-message-tool/ results
Directory ==
  {[custom_channel_id |-> "ch1", custom_channel_token |-> TokenOne,
    digisac_service_id |-> "S1"],
   [custom_channel_id |-> "ch2", custom_channel_token |-> TokenTwo,
    digisac_service_id |-> "S1"],
   [custom_channel_id |-> "ch3", custom_channel_token |-> TokenOne,
    digisac_service_id |-> "S2"]}

NoChannelConfig ==
  [custom_channel_id |-> "none", custom_channel_token |-> <<>>,
   digisac_service_id |-> "none"]

\* what callMessageTool resolves to: the directory, or a failure
DirectoryResults ==
  {[success |-> TRUE, results |-> Directory], [success |-> FALSE, results |-> {}]}

\* getChannelConfig: the entry whose custom_channel_id is channelID, or null
GetChannelConfig(result, channelID) ==
  IF result.success /\ \E item \in result.results : item.custom_channel_id = channelID
    THEN CHOOSE item \in result.results : item.custom_channel_id = channelID
    ELSE NoChannelConfig

\* the request's inputs: req.params.channelID, req.headers.authorization
\* (<<>>: absent), contactId and message
SendChannelIds == {"ch1", "ch2", "chX"}
SendHeaders ==
  {<<>>, BearerPrefix \o TokenOne, BearerPrefix \o TokenTwo, TokenOne}
SendPhones == {NoContact, ContactId("55", 13), ContactId("other", 11)}
SendMessages ==
  {[type |-> "text", attachment |-> FALSE],
   [type |-> "attachment", attachment |-> TRUE],
   [type |-> "attachment", attachment |-> FALSE],
   [type |-> "location", attachment |-> FALSE],
   [type |-> "quick_reply", attachment |-> FALSE],
   [type |-> "sticker", attachment |-> FALSE],
   [type |-> "none", attachment |-> FALSE]}

\* validators.isValidBrazilianPhone: 12 or 13 digits starting with 55
IsValidBrazilianPhone(phone) ==
  phone.lead = "55" /\ phone.len >= 12 /\ phone.len <= 13

\* validateMessageData: the status of the error, 0 when the data is valid
ValidateMessageData(phone, msg) ==
  IF phone = NoContact \/ ~IsValidBrazilianPhone(phone) THEN 400
  ELSE IF msg.type = "none" THEN 400
  ELSE 0

\* createMessage throws for a type outside its switch
CreateMessageThrows(type) ==
  type \notin {"text", "attachment", "location", "quick_reply"}

\* a comparison that lets every token through
TokenMatchesAlways(header, channelConfig) == TRUE

\* lines 516-517: the header from its eighth character on is the channel's token
TokenMatches(header, channelConfig) ==
  Substring(header, 7) = channelConfig.custom_channel_token

NoSendResponse == [status |-> 0, body |-> "none"]

IdleSend ==
  [pc |-> "idle", n |-> 0, channelID |-> "none", header |-> <<>>,
   phone |-> NoContact, msg |-> [type |-> "none", attachment |-> FALSE],
   channelConfig |-> NoChannelConfig, response |-> NoSendResponse]

SendInit ==
  /\ sreq = IdleSend
  /\ upstream = <<>>
  /\ sendRequests = 0

\* res.status(status).json(...): the request is answered
SendRespond(rq, status, body) ==
  /\ sreq' = [rq EXCEPT !.pc = "done", !.response = [status |-> status, body |-> body]]
  /\ UNCHANGED upstream

\* digiSacApiService.sendMessage is called: the POST /messages is issued
SendUpstream(rq) ==
  /\ sreq' = [rq EXCEPT !.pc = "sending"]
  /\ upstream' = Append(upstream,
       [n |-> rq.n, channelID |-> rq.channelID, header |-> rq.header,
        service |-> rq.channelConfig.digisac_service_id, type |-> rq.msg.type])

\* lines 462-468: the request arrives and awaits getChannelConfig
SendReceive(channelID, header, phone, msg) ==
  /\ sreq.pc \in {"idle", "done"}
  /\ sendRequests < MaxSendRequests
  /\ sendRequests' = sendRequests + 1
  /\ sreq' = [IdleSend EXCEPT !.pc = "config", !.n = sendRequests + 1,
                              !.channelID = channelID, !.header = header,
                              !.phone = phone, !.msg = msg]
  /\ UNCHANGED <<upstream, dirVars, referaVars, retryVars, cacheVars, hookVars>>

\* lines 470-593: the directory answered; the checks up to the next await
SendConfigResolved ==
  /\ sreq.pc = "config"
  /\ \E result \in DirectoryResults :
       LET rq == [sreq EXCEPT !.channelConfig = GetChannelConfig(result, sreq.channelID)]
       IN IF rq.channelConfig = NoChannelConfig
            THEN SendRespond(rq, 404, "channel_not_found")
            ELSE IF rq.header = <<>>
              THEN SendRespond(rq, 401, "no_bearer")
              ELSE IF ~TokenMatches(rq.header, rq.channelConfig)
                THEN SendRespond(rq, 401, "invalid_token")
                ELSE IF ValidateMessageData(rq.phone, rq.msg) # 0
                  THEN SendRespond(rq, ValidateMessageData(rq.phone, rq.msg),
                                   "validation")
                  ELSE IF CreateMessageThrows(rq.msg.type)
                    \* the route's catch, lines 622-629
                    THEN SendRespond(rq, 500, "internal")
                    ELSE IF rq.msg.type = "attachment" /\ rq.msg.attachment
                      THEN /\ sreq' = [rq EXCEPT !.pc = "attachment"]
                           /\ UNCHANGED upstream
                      ELSE SendUpstream(rq)
  /\ UNCHANGED <<sendRequests, dirVars, referaVars, retryVars, cacheVars, hookVars>>

\* lines 570-593: processAttachment settled (it catches its own errors)
SendAttachmentProcessed ==
  /\ sreq.pc = "attachment"
  /\ SendUpstream(sreq)
  /\ UNCHANGED <<sendRequests, dirVars, referaVars, retryVars, cacheVars, hookVars>>

\* lines 595-621: DigiSac answered
SendSettled ==
  /\ sreq.pc = "sending"
  /\ \E code \in {200, 401, 500} :
       IF code = 200 THEN SendRespond(sreq, 200, "mId")
       ELSE SendRespond(sreq, IF code = 401 THEN 401 ELSE 400, "digisac_error")
  /\ UNCHANGED <<sendRequests, dirVars, referaVars, retryVars, cacheVars, hookVars>>

SendNext ==
  \/ \E channelID \in SendChannelIds, header \in SendHeaders,
        phone \in SendPhones, msg \in SendMessages :
       SendReceive(channelID, header, phone, msg)
  \/ SendConfigResolved
  \/ SendAttachmentProcessed
  \/ SendSettled

(***************************************************************************)
(* getChannelsByServiceId over the SimpleCache singleton: the entries      *)
(* "channels:<serviceId>", their expiry timers and the calls in flight.    *)
(***************************************************************************)
GcSlots == {1, 2}
GcServices == {"S1", "S2", "S9"}
ChannelTickMs == ChannelsTtl \div 2
NoDue == 0 - 1

\* the directory after a channel moved from service S1 to service S2
DirectoryMoved ==
  {[custom_channel_id |-> "ch1", custom_channel_token |-> TokenOne,
    digisac_service_id |-> "S1"],
   [custom_channel_id |-> "ch2", custom_channel_token |-> TokenTwo,
    digisac_service_id |-> "S2"],
   [custom_channel_id |-> "ch3", custom_channel_token |-> TokenOne,
    digisac_service_id |-> "S2"]}

\* what callMessageTool() resolves to in a getChannelsByServiceId call:
\* success is result.success, listed says that result.data.results is there
GcDirectoryResults ==
  {[success |-> r.success, listed |-> r.success, results |-> r.results] :
     r \in DirectoryResults \cup {[success |-> TRUE, results |-> DirectoryMoved]}}
    \cup {[success |-> TRUE, listed |-> FALSE, results |-> {}]}

\* `result.success && result.data && result.data.results`
HasResultList(result) == result.success /\ result.listed

\* `channels:${serviceId}`
ChannelsKey(serviceId) == <<"channels", serviceId>>

\* an entry of SimpleCache.cache, and a key without entry
NoEntry == [held |-> FALSE, value |-> {}]
Entry(value) == [held |-> TRUE, value |-> value]

\* a filter that lets every channel of the directory through
FilterByServiceIdAll(results, serviceId) == results

\* results.filter(item => item.digisac_service_id === serviceId)
FilterByServiceId(results, serviceId) ==
  {item \in results : item.digisac_service_id = serviceId}

\* `if (cached)` on cache.get(key): an array, even an empty one, is truthy
IsCached(entry) == entry.held

IdleGc ==
  [pc |-> "idle", serviceId |-> "none", seen |-> NoEntry, fresh |-> FALSE,
   fetches |-> 0,
   fetched |-> [success |-> FALSE, listed |-> FALSE, results |-> {}],
   result |-> {},
   stored |-> [key |-> <<>>, value |-> {}, ttl |-> 0]]

ChannelsInit ==
  /\ dcCache = [s \in GcServices |-> NoEntry]
  /\ dcTimers = [s \in GcServices |-> NoDue]
  /\ dcStored = [s \in GcServices |-> [at |-> 0, ttl |-> 0, done |-> FALSE]]
  /\ dcNow = 0
  /\ gcall = [g \in GcSlots |-> IdleGc]
  /\ gcCalls = 0
  /\ dirFetches = 0

\* whether the entry of serviceId is unexpired: its ttl has not elapsed
Unexpired(serviceId) ==
  dcStored[serviceId].done /\ dcNow - dcStored[serviceId].at < dcStored[serviceId].ttl

\* lines 262-276: the call looks in the cache and, on a miss, asks the
\* directory
GcCall(g, serviceId) ==
  /\ gcall[g].pc \in {"idle", "returned"}
  /\ gcCalls < MaxChannelCalls
  /\ gcCalls' = gcCalls + 1
  /\ LET cached == dcCache[serviceId]
         call == [IdleGc EXCEPT !.serviceId = serviceId, !.seen = cached,
                                !.fresh = Unexpired(serviceId)]
     IN IF IsCached(cached)
          THEN /\ gcall' = [gcall EXCEPT ![g] =
                    [call EXCEPT !.pc = "returned", !.result = cached.value]]
               /\ UNCHANGED dirFetches
          ELSE /\ gcall' = [gcall EXCEPT ![g] =
                    [call EXCEPT !.pc = "fetching", !.fetches = 1]]
               /\ dirFetches' = dirFetches + 1
  /\ UNCHANGED <<dcCache, dcTimers, dcStored, dcNow>>
  /\ UNCHANGED <<sendVars, referaVars, retryVars, cacheVars, hookVars>>

\* a call that stores the list it returns whatever the directory answered
GcFetchedStoringAlways(g) ==
  /\ gcall[g].pc = "fetching"
  /\ \E result \in GcDirectoryResults :
       LET serviceId == gcall[g].serviceId
           channels == FilterByServiceId(result.results, serviceId)
       IN /\ dcCache' = [dcCache EXCEPT ![serviceId] = Entry(channels)]
          /\ dcTimers' = [dcTimers EXCEPT ![serviceId] = dcNow + ChannelsTtl]
          /\ dcStored' = [dcStored EXCEPT ![serviceId] =
               [at |-> dcNow, ttl |-> ChannelsTtl, done |-> TRUE]]
          /\ gcall' = [gcall EXCEPT ![g] =
               [@ EXCEPT !.pc = "returned", !.fetched = result,
                         !.result = channels,
                         !.stored = [key |-> ChannelsKey(serviceId),
                                     value |-> channels,
                                     ttl |-> ChannelsTtl]]]
  /\ UNCHANGED <<dcNow, gcCalls, dirFetches>>
  /\ UNCHANGED <<sendVars, referaVars, retryVars, cacheVars, hookVars>>

\* lines 278-296: the directory answered; the filtered list is stored with
\* cache.set (which replaces the key's timer) and returned
GcFetched(g) ==
  /\ gcall[g].pc = "fetching"
  /\ \E result \in GcDirectoryResults :
       LET serviceId == gcall[g].serviceId
           channels == FilterByServiceId(result.results, serviceId)
       IN IF HasResultList(result)
            THEN /\ dcCache' = [dcCache EXCEPT ![serviceId] = Entry(channels)]
                 /\ dcTimers' = [dcTimers EXCEPT ![serviceId] = dcNow + ChannelsTtl]
                 /\ dcStored' = [dcStored EXCEPT ![serviceId] =
                      [at |-> dcNow, ttl |-> ChannelsTtl, done |-> TRUE]]
                 /\ gcall' = [gcall EXCEPT ![g] =
                      [@ EXCEPT !.pc = "returned", !.fetched = result,
                                !.result = channels,
                                !.stored = [key |-> ChannelsKey(serviceId),
                                            value |-> channels,
                                            ttl |-> ChannelsTtl]]]
            ELSE /\ gcall' = [gcall EXCEPT ![g] =
                      [@ EXCEPT !.pc = "returned", !.fetched = result,
                                !.result = {}]]
                 /\ UNCHANGED <<dcCache, dcTimers, dcStored>>
  /\ UNCHANGED <<dcNow, gcCalls, dirFetches>>
  /\ UNCHANGED <<sendVars, referaVars, retryVars, cacheVars, hookVars>>

\* the expiry callback of set(), run by the event loop once it is due
DcExpire(serviceId) ==
  /\ dcTimers[serviceId] # NoDue
  /\ dcNow >= dcTimers[serviceId]
  /\ dcCache' = [dcCache EXCEPT ![serviceId] = NoEntry]
  /\ dcTimers' = [dcTimers EXCEPT ![serviceId] = NoDue]
  /\ UNCHANGED <<dcStored, dcNow, gcall, gcCalls, dirFetches>>
  /\ UNCHANGED <<sendVars, referaVars, retryVars, cacheVars, hookVars>>

\* time passes
DcTick ==
  /\ dcNow < MaxChannelTicks * ChannelTickMs
  /\ dcNow' = dcNow + ChannelTickMs
  /\ UNCHANGED <<dcCache, dcTimers, dcStored, gcall, gcCalls, dirFetches>>
  /\ UNCHANGED <<sendVars, referaVars, retryVars, cacheVars, hookVars>>

ChannelsNext ==
  \/ \E g \in GcSlots, serviceId \in GcServices : GcCall(g, serviceId)
  \/ \E g \in GcSlots : GcFetched(g)
  \/ \E serviceId \in GcServices : DcExpire(serviceId)
  \/ DcTick

(***************************************************************************)
(* ReferaApiService: the directory client's login, its cooldown after a    *)
(* failed login, and callMessageTool with its new login on a rejected      *)
(* token. A call is cut at its awaits: POST /login/ and the directory GET. *)
(* The credentials are configured.                                         *)
(***************************************************************************)
RfSlots == {1, 2}
RfTickMinutes == CooldownMinutes \div 2
NoAttempt == 0 - 1

\* response.data.expires_in of a login response, in minutes: a short
\* lifetime, or none given (the default)
RfExpiresIn == {35, DefaultExpiresIn}

\* what the directory answers to GET /connections-message-tool/
RfGetReplies == {"ok", "error", "token_not_valid"}

IdleCall == [pc |-> "idle", result |-> "none", gets |-> 0, logins |-> 0,
             blocked |-> FALSE]

\* new ReferaApiService()
ReferaInit ==
  /\ rfAccess = FALSE
  /\ rfExpiry = 0
  /\ rfLastAttempt = NoAttempt
  /\ rfNow = 0
  /\ rcall = [c \in RfSlots |-> IdleCall]
  /\ rfCalls = 0
  /\ lastFailure = [at |-> 0, standing |-> FALSE]

RouteInit == SendInit /\ ChannelsInit /\ ReferaInit

\* one more request, counted up to RequestCountCap
Bump(n) == IF n < RequestCountCap THEN n + 1 ELSE n

\* isTokenValid at time t
IsTokenValid(access, expiry, t) == access /\ t < expiry - TokenMarginMinutes

\* a cooldown that never applies
IsInCooldownNever(attempt, t) == FALSE

\* isInCooldown().inCooldown at time t
IsInCooldown(attempt, t) ==
  attempt # NoAttempt /\ (attempt + CooldownMinutes) - t > 0

\* login() up to its await: refused during the cooldown (FALSE, no request),
\* else POST /login/ is sent and the call waits for it at pc
LoginOr(c, rec, attempt, pc) ==
  IF IsInCooldown(attempt, rfNow)
    THEN rcall' = [rcall EXCEPT ![c] =
           [rec EXCEPT !.pc = "returned", !.result = "failure", !.blocked = TRUE]]
    ELSE rcall' = [rcall EXCEPT ![c] = [rec EXCEPT !.pc = pc, !.logins = Bump(@)]]

\* callMessageTool up to its first await, lines 272-296: the GET is sent
\* with a token that isTokenValid accepts, else login() comes first
EnterCall(c, rec, valid, attempt) ==
  IF valid
    THEN rcall' = [rcall EXCEPT ![c] = [rec EXCEPT !.pc = "get", !.gets = Bump(@)]]
    ELSE LoginOr(c, rec, attempt, "login")

\* a login that succeeded: lines 200-241, with clearLoginFailure
LoginSucceeded(expiresIn) ==
  /\ rfAccess' = TRUE
  /\ rfExpiry' = rfNow + expiresIn
  /\ rfLastAttempt' = NoAttempt
  /\ lastFailure' = [lastFailure EXCEPT !.standing = FALSE]

\* a login that failed: lines 245-249, with recordLoginFailure
LoginFailed ==
  /\ rfLastAttempt' = rfNow
  /\ lastFailure' = [at |-> rfNow, standing |-> TRUE]
  /\ UNCHANGED <<rfAccess, rfExpiry>>

\* callMessageTool() is called
RfCall(c) ==
  /\ rcall[c].pc \in {"idle", "returned"}
  /\ rfCalls < MaxDirectoryCalls
  /\ rfCalls' = rfCalls + 1
  /\ EnterCall(c, IdleCall, IsTokenValid(rfAccess, rfExpiry, rfNow), rfLastAttempt)
  /\ UNCHANGED <<rfAccess, rfExpiry, rfLastAttempt, rfNow, lastFailure>>
  /\ UNCHANGED <<sendVars, dirVars, retryVars, cacheVars, hookVars>>

\* the POST /login/ of ensureValidToken is answered: the GET follows a
\* success; a failure makes callMessageTool return { success: false }
RfLoginSettled(c) ==
  /\ rcall[c].pc = "login"
  /\ \/ \E expiresIn \in RfExpiresIn :
          /\ LoginSucceeded(expiresIn)
          /\ rcall' = [rcall EXCEPT ![c].pc = "get", ![c].gets = Bump(@)]
     \/ /\ LoginFailed
        /\ rcall' = [rcall EXCEPT ![c].pc = "returned", ![c].result = "failure"]
  /\ UNCHANGED <<rfNow, rfCalls>>
  /\ UNCHANGED <<sendVars, dirVars, retryVars, cacheVars, hookVars>>

\* the GET is answered, lines 298-334: a result, an error, or a rejected
\* token, after which login() is called again
RfGetSettled(c) ==
  /\ rcall[c].pc = "get"
  /\ \E reply \in RfGetReplies :
       IF reply = "token_not_valid"
         THEN LoginOr(c, rcall[c], rfLastAttempt, "relogin")
         ELSE rcall' = [rcall EXCEPT ![c].pc = "returned",
                          ![c].result = IF reply = "ok" THEN "success" ELSE "failure"]
  /\ UNCHANGED <<rfAccess, rfExpiry, rfLastAttempt, rfNow, rfCalls, lastFailure>>
  /\ UNCHANGED <<sendVars, dirVars, retryVars, cacheVars, hookVars>>

\* the POST /login/ of the catch block is answered, lines 315-319: after a
\* success callMessageTool calls itself; a failure returns { success: false }
RfReloginSettled(c) ==
  /\ rcall[c].pc = "relogin"
  /\ \/ \E expiresIn \in RfExpiresIn :
          /\ LoginSucceeded(expiresIn)
          /\ EnterCall(c, rcall[c],
                       IsTokenValid(TRUE, rfNow + expiresIn, rfNow), NoAttempt)
     \/ /\ LoginFailed
        /\ rcall' = [rcall EXCEPT ![c].pc = "returned", ![c].result = "failure"]
  /\ UNCHANGED <<rfNow, rfCalls>>
  /\ UNCHANGED <<sendVars, dirVars, retryVars, cacheVars, hookVars>>

\* time passes
RfTick ==
  /\ rfNow < MaxDirectoryTicks * RfTickMinutes
  /\ rfNow' = rfNow + RfTickMinutes
  /\ UNCHANGED <<rfAccess, rfExpiry, rfLastAttempt, rcall, rfCalls, lastFailure>>
  /\ UNCHANGED <<sendVars, dirVars, retryVars, cacheVars, hookVars>>

\* what call c awaits is answered
RfSettles(c) == RfLoginSettled(c) \/ RfGetSettled(c) \/ RfReloginSettled(c)

DirectoryNext ==
  \/ \E c \in RfSlots : RfCall(c)
  \/ \E c \in RfSlots : RfLoginSettled(c)
  \/ \E c \in RfSlots : RfGetSettled(c)
  \/ \E c \in RfSlots : RfReloginSettled(c)
  \/ RfTick

(***************************************************************************)
(* Specifications                                                          *)
(***************************************************************************)
\* the RetryManager, over the constructor's arguments
RetryInit ==
  /\ \E m \in 1..MaxRetriesArg, b \in {DefaultBaseDelay, 3 * DefaultBaseDelay} :
       RetryManagerInit(m, b, DefaultMaxDelay)
  /\ SimpleCacheInit
  /\ HookInit
  /\ RouteInit
  /\ scenario = [slots |-> {}, bodies |-> {}]

SpecRetry == RetryInit /\ [][RetryNext]_vars

CacheInit ==
  /\ RetryManagerInit(DefaultMaxRetries, DefaultBaseDelay, DefaultMaxDelay)
  /\ SimpleCacheInit
  /\ HookInit
  /\ RouteInit
  /\ scenario = [slots |-> {}, bodies |-> {}]

SpecCache == CacheInit /\ [][CacheNext]_vars

\* MessageCache, as constructed by the module (ttl 300000)
DedupInit == CacheInit

SpecDedup == DedupInit /\ [][DedupNext]_vars

\* the message route; the other components as constructed
SpecSend == CacheInit /\ [][SendNext]_vars

\* getChannelsByServiceId; the other components as constructed
SpecChannels == CacheInit /\ [][ChannelsNext]_vars

\* the directory client, every request of which is eventually answered
SpecDirectory ==
  CacheInit /\ [][DirectoryNext]_vars /\ \A c \in RfSlots : WF_vars(RfSettles(c))

\* the webhook handler, with the RetryManager singleton's defaults
Init ==
  /\ RetryManagerInit(DefaultMaxRetries, DefaultBaseDelay, DefaultMaxDelay)
  /\ SimpleCacheInit
  /\ HookInit
  /\ RouteInit
  /\ scenario = [slots |-> {1}, bodies |-> Bodies]

Spec == Init /\ [][Next]_vars

\* the webhook handler under two overlapping deliveries of the same event
OverlapInit ==
  /\ RetryManagerInit(DefaultMaxRetries, DefaultBaseDelay, DefaultMaxDelay)
  /\ SimpleCacheInit
  /\ HookInit
  /\ RouteInit
  /\ scenario = [slots |-> Requests, bodies |-> {BaseBody}]

SpecOverlap == OverlapInit /\ [][OverlapNext]_vars

\* the fan-out of one event, with permanent and transient rejections
FanoutInit ==
  /\ RetryManagerInit(DefaultMaxRetries, DefaultBaseDelay, DefaultMaxDelay)
  /\ SimpleCacheInit
  /\ HookInit
  /\ RouteInit
  /\ scenario = [slots |-> {1}, bodies |-> {BaseBody}]

SpecFanout == FanoutInit /\ [][FanoutNext]_vars

\* the webhook handler when every network call eventually returns or fails
\* and every timer eventually fires: whatever the handler awaits settles
SpecLive == Init /\ [][LiveNext]_vars /\ WF_vars(Settles)

(***************************************************************************)
(* Claims on the RetryManager (SpecRetry)                                  *)
(***************************************************************************)
NewlyThrown(o) == ops[o].pc # "thrown" /\ ops'[o].pc = "thrown"

\* C4: an operation that fails on every invocation is invoked exactly
\* maxRetries times; executeWithRetry then raises a failure that wraps the
\* last error and the attempt count, and totalFailures grows by exactly one
\* (and it grows for no other reason).
C4_ExhaustedAfterMaxRetries ==
  [][/\ \A o \in Ops :
          NewlyThrown(o) =>
            /\ ops'[o].calls = maxRetries
            /\ ops'[o].failure = [attempts |-> maxRetries, cause |-> ops'[o].lastError]
            /\ ops'[o].lastError.thrown
            /\ stats'.totalFailures = stats.totalFailures + 1
     /\ \A o \in Ops : ops'[o].calls <= maxRetries
     /\ stats'.totalFailures > stats.totalFailures => \E o \in Ops : NewlyThrown(o)
    ]_vars

\* an operation has failed maxRetries times and the failure has been raised
C4_Witness ==
  \E o \in Ops : /\ ops[o].pc = "thrown"
                 /\ ops[o].calls = maxRetries
                 /\ maxRetries >= 3
                 /\ stats.totalFailures = 1

\* C5: an operation run through executeHttpWithRetry whose first attempt
\* fails with a non-retryable error (a 4xx other than 408/429, success=false)
\* is invoked exactly once, with no backoff wait.
C5_NonRetryableFailsFast ==
  \A o \in Ops :
    (ops[o].kind = "http" /\ ops[o].firstNonRetryable) =>
      (ops[o].calls = 1 /\ ops[o].waits = <<>>)

\* C6: the wait after failed attempt a (1 <= a < maxRetries) is
\* min(baseDelay * 2^(a-1), maxDelay); the waits are non-decreasing and never
\* exceed maxDelay, and no wait follows the last failed attempt.
C6_BackoffSchedule ==
  \A o \in Ops :
    LET w == ops[o].waits
    IN /\ \A a \in 1..Len(w) :
            /\ a < maxRetries
            /\ w[a] = IF baseDelay * 2^(a - 1) <= maxDelay
                        THEN baseDelay * 2^(a - 1) ELSE maxDelay
            /\ w[a] <= maxDelay
            /\ a > 1 => w[a - 1] <= w[a]
       /\ ops[o].pc = "sleeping" => Len(w) = ops[o].attempt
       /\ ops[o].pc = "invoking" => Len(w) = ops[o].attempt - 1
       /\ ops[o].pc = "thrown" => Len(w) = maxRetries - 1

\* an operation has exhausted its attempts and one of its waits was capped
C6_Witness ==
  \E o \in Ops : /\ ops[o].pc = "thrown"
                 /\ \E a \in 1..Len(ops[o].waits) :
                      /\ ops[o].waits[a] = maxDelay
                      /\ baseDelay * 2^(a - 1) > maxDelay
                 /\ \E a \in 1..Len(ops[o].waits) : ops[o].waits[a] < maxDelay

\* the executeWithRetry calls that have started and not yet finished
InFlight == Cardinality({o \in Ops : ops[o].pc \in {"invoking", "sleeping"}})

\* the operations counted that no outcome counter accounts for
Untallied ==
  stats.totalOperations
    - (stats.successOnFirstTry + stats.successWithRetry + stats.totalFailures)

\* C24: every finished operation is tallied in exactly one outcome counter:
\* each step of executeWithRetry keeps totalOperations equal to
\* successOnFirstTry + successWithRetry + totalFailures plus the operations
\* still in flight, so that the three counters add up to totalOperations
\* whenever all calls have completed; and resetStats (the only step that
\* changes the counters alone) sets all five counters to zero.
C24_StatsTally ==
  [][/\ ops' # ops =>
          /\ Untallied' - InFlight' = Untallied - InFlight
          /\ \A o \in Ops :
               (ops[o].pc \in {"invoking", "sleeping"}
                  /\ ops'[o].pc \in {"returned", "thrown"}) =>
                 (stats'.successOnFirstTry + stats'.successWithRetry
                    + stats'.totalFailures
                  = stats.successOnFirstTry + stats.successWithRetry
                    + stats.totalFailures + 1)
     /\ (ops' = ops /\ stats' # stats) =>
          /\ stats'.totalOperations = 0
          /\ stats'.successOnFirstTry = 0
          /\ stats'.successWithRetry = 0
          /\ stats'.totalFailures = 0
          /\ stats'.retriesUsed = 0
    ]_vars

\* two calls have completed without a reset, one by a success after retries
\* and one by a terminal failure, and the counters add up
C24_Witness ==
  /\ \A o \in Ops : ops[o].pc \in {"returned", "thrown"}
  /\ stats.totalOperations = 2
  /\ stats.successWithRetry = 1
  /\ stats.totalFailures = 1
  /\ stats.successOnFirstTry = 0

NewlyReturned(o) == ops[o].pc = "invoking" /\ ops'[o].pc = "returned"

\* C29: an operation that first succeeds at attempt k has been invoked
\* exactly k times (k - 1 failures, each followed by a wait), its result is
\* what executeWithRetry returns, and it is not invoked again afterwards;
\* k = 1 increments successOnFirstTry and nothing else, k > 1 increments
\* successWithRetry and adds k - 1 to retriesUsed.
C29_SuccessAtAttemptK ==
  [][\A o \in Ops :
       /\ NewlyReturned(o) =>
            LET k == ops'[o].attempt
            IN /\ 1 <= k /\ k <= maxRetries
               /\ ops'[o].calls = k
               /\ Len(ops'[o].waits) = k - 1
               /\ ~ops'[o].result.thrown /\ ops'[o].result # NoOutcome
               /\ stats' = IF k = 1
                    THEN [stats EXCEPT !.successOnFirstTry = @ + 1]
                    ELSE [stats EXCEPT !.successWithRetry = @ + 1,
                                       !.retriesUsed = @ + (k - 1)]
       /\ (ops[o].pc = "returned" /\ ops'[o].pc = "returned") =>
            ops'[o] = ops[o]
       /\ ops[o].pc = "returned" => ops'[o].pc \in {"returned", "invoking"}
       /\ (ops[o].pc = "returned" /\ ops'[o].pc = "invoking") =>
            started' = started + 1
    ]_vars

\* an operation has succeeded at its third attempt
C29_Witness ==
  \E o \in Ops :
    /\ ops[o].pc = "returned"
    /\ ops[o].attempt = 3
    /\ ops[o].calls = 3
    /\ stats.successWithRetry = 1
    /\ stats.retriesUsed = 2

\* C35: in every reachable state, also when resetStats runs while operations
\* are in flight, the successes and failures counted do not exceed the
\* operations counted, so the reported success rate never exceeds 100.
C35_TalliesWithinOperations ==
  stats.successOnFirstTry + stats.successWithRetry + stats.totalFailures
    <= stats.totalOperations

(***************************************************************************)
(* Claims on SimpleCache (SpecCache)                                       *)
(***************************************************************************)
\* C10: get(k) never returns a value whose TTL has elapsed: once at least ttl
\* has passed since the last set(k, v, ttl), get(k) returns null.
C10_GetNeverReturnsExpired ==
  (lastGet.key # "none" /\ lastGet.expired) => lastGet.value = Absent

\* the expiry timers pending for key k
PendingFor(k) == {t \in pendingTimers : t.key = k}

\* C11: after any sequence of set, delete, clear and timer expiries each key
\* has at most one pending expiry timer, and it is the one this.timers holds
\* for the key: a set on a key that has a timer cancels it before scheduling
\* the new one.
C11_OnePendingTimerPerKey ==
  \A k \in ScKeys :
    /\ Cardinality(PendingFor(k)) <= 1
    /\ \A t \in PendingFor(k) : scTimers[k] = t.id

\* one key was set twice before its first timer was due; one timer, the
\* second, is pending for it
C11_Witness ==
  \E k \in ScKeys :
    /\ timerSeq = 2
    /\ scNow < ChannelsTtl
    /\ \A j \in ScKeys \ {k} : ~lastSet[j].done
    /\ scTimers[k] = 2
    /\ Cardinality(PendingFor(k)) = 1

\* the last set of key k stands: no delete or clear has removed it and its
\* ttl has not elapsed
Stands(k) == lastSet[k].done /\ lastSet[k].kept /\ ~TtlElapsed(k)

\* C31: after set(k, v1, t1) followed, before t1 has elapsed, by
\* set(k, v2, t2), get(k) returns v2 until t2 has elapsed since the second
\* set (unless a delete or clear removes it): the expiry scheduled by the
\* first set never removes the value stored by the second.
C31_SecondSetOutlivesFirstTimer ==
  \A k \in ScKeys : Stands(k) => ScLookup(k) = lastSet[k].value

\* key k was set with the shorter ttl at clock 0 and set again with the
\* longer one a tick later; the clock has passed the first set's expiry
\* time and get still finds the second value
C31_Witness ==
  \E k \in ScKeys :
    /\ timerSeq = 2
    /\ scTimers[k] = 2
    /\ lastSet[k] = [at |-> CacheTickMs, ttl |-> ContactTtl, done |-> TRUE,
                     value |-> "v2", kept |-> TRUE]
    /\ \A j \in ScKeys \ {k} : ~lastSet[j].done
    /\ scNow >= ChannelsTtl
    /\ Stands(k)
    /\ ScLookup(k) = "v2"

\* the keys of this.timers, and the keys that hold a value in this.cache
TimerKeys == {k \in ScKeys : scTimers[k] # NoTimer}
ValueKeys == {k \in ScKeys : scCache[k] # Absent}

\* C32: in every state reachable by set, delete, clear and timer expiry the
\* keys that have a pending timer are the keys that hold a value, in
\* this.timers and in the event loop's timer queue alike.
C32_TimersMatchValues ==
  /\ TimerKeys = ValueKeys
  /\ {t.key : t \in pendingTimers} = ValueKeys

\* both keys were set; one was then removed by delete or clear and has no
\* timer left, the other was set again and holds its value with the third
\* timer, some time after that set
C32_Witness ==
  \E k \in ScKeys :
    /\ timerSeq = 3
    /\ \A j \in ScKeys : lastSet[j].done
    /\ ~lastSet[k].kept
    /\ ValueKeys = ScKeys \ {k}
    /\ \A j \in ValueKeys : scTimers[j] = 3 /\ scNow > lastSet[j].at

(***************************************************************************)
(* Claims on MessageCache (SpecDedup)                                      *)
(***************************************************************************)
\* C12: for an event E with no entry in the dedup cache, two successive
\* calls isDuplicate(E) within the TTL return false, then true.
C12_SecondCheckIsDuplicate ==
  \A i \in 1..(Len(mcCalls) - 1) :
    LET first == mcCalls[i]
        second == mcCalls[i + 1]
    IN (/\ first.op = "isDuplicate" /\ second.op = "isDuplicate"
        /\ first.body = second.body
        /\ ~first.known
        /\ second.at - first.at < MessageCacheTtl) =>
         (~first.result /\ second.result)

\* C33: the dedup key is a function of the event alone: the key computed for
\* an event at any later time is the key markAsProcessed stored it under,
\* also for an event that carries no timestamp field.
C33_KeyIsFunctionOfEvent ==
  \A i \in 1..Len(mcCalls) :
    mcCalls[i].op = "markAsProcessed" =>
      GenerateKey(mcCalls[i].body, now) = GenerateKey(mcCalls[i].body, mcCalls[i].at)

(***************************************************************************)
(* Claims on the webhook handler (Spec)                                    *)
(***************************************************************************)
\* what the log of one channel's POSTs says: the last POST was answered 2xx
Delivered(log) ==
  Len(log) >= 1 /\ log[Len(log)] >= 200 /\ log[Len(log)] < 300

\* every one of maxRetries POSTs was answered with an error
Exhausted(log) ==
  Len(log) = maxRetries /\ \A i \in 1..Len(log) : ~(log[i] >= 200 /\ log[i] < 300)

\* C1: every request to POST /digisac/webhook is answered with HTTP status
\* 200, whatever branch the handler ends in, also for a body that lacks the
\* event field or the data field.
C1_AlwaysAnswers200 ==
  \A r \in Requests : response[r].code # 0 => response[r].code = 200

\* C2: once an event has been marked processed, a redelivery of the same
\* event that arrives while the entry is younger than the TTL starts no
\* delivery to any channel.
C2_RedeliveryNotDispatched ==
  \A r \in Requests :
    req[r].redelivery =>
      \A c \in Channels : chan[r][c].st = "idle" /\ postLog[r][c] = <<>>

\* C3: a request whose event the dedup check finds to be a duplicate is
\* answered with the body that reports it ignored as a duplicate, not with
\* the internal-error body.
C3_DuplicateReportedAsIgnored ==
  \A r \in Requests :
    (req[r].dupHit /\ response[r].code # 0) =>
      (response[r].tag = "duplicate" /\ response[r].dataStatus = "ignored")

\* no POST was sent and no delivery started for request r
NoDelivery(r) ==
  \A c \in Channels : chan[r][c].st = "idle" /\ postLog[r][c] = <<>>

\* C13: a non-duplicate webhook event whose message type is "ticket" is
\* answered 200 with status "ignored" and messageType "ticket", and no
\* delivery to any channel is made for it.
C13_TicketIgnored ==
  \A r \in Requests :
    (/\ req[r].pc # "idle"
     /\ req[r].body.type = "ticket"
     /\ ValidateDigiSacWebhook(req[r].body) = 0
     /\ ~req[r].dupHit) =>
      /\ response[r] = Reply(200, "ignored", "ticket")
      /\ NoDelivery(r)

\* a ticket event of a service that has channels has been answered
C13_Witness ==
  \E r \in Requests :
    /\ req[r].pc = "done"
    /\ req[r].body.type = "ticket"
    /\ req[r].body.service = "S1"
    /\ ~req[r].dupHit
    /\ response[r].code = 200 /\ response[r].status = "ignored"

\* request r got as far as resolving its channels
ReachedChannelResolution(r) ==
  /\ req[r].pc \notin {"idle", "channels"}
  /\ req[r].body.hasData
  /\ ~req[r].dupHit
  /\ ValidateDigiSacWebhook(req[r].body) = 0
  /\ req[r].body.type # "ticket"

\* C14: when the resolver returns no channel for the event's serviceId, or
\* the event carries none, the webhook is answered 200 with status "ignored"
\* (not the error body), and the handler never gets to the contact lookup,
\* the media poll or a channel delivery.
C14_NoChannelsIgnored ==
  \A r \in Requests :
    /\ (ReachedChannelResolution(r) /\ req[r].channels = {}) =>
         /\ req[r].pc = "done"
         /\ response[r] = Reply(200, "ignored", "no_channels")
         /\ NoDelivery(r)
    /\ req[r].pc \in {"contact", "pollwait1", "poll1", "pollwait2", "poll2", "fanout"} =>
         req[r].channels # {}

\* the resolver returned no channel for an event that names a service, whose
\* contact would have needed a lookup
C14_Witness ==
  \E r \in Requests :
    /\ ReachedChannelResolution(r)
    /\ req[r].channels = {}
    /\ req[r].body.service # "none"
    /\ req[r].body.fromMe
    /\ response[r].status = "ignored"

\* a delivery to some channel has been started for request r
Dispatched(r) == \E c \in Channels : chan[r][c].st # "idle"

\* the kind of the message request r hands to its channels
DispatchedKind(r) ==
  ProcessDigiSacMessage(req[r].body.type, req[r].body.text, req[r].filesUrl).kind

\* C15: an image, audio, ptt or document event that arrives without an asset
\* URL is dropped at once (never polled, never delivered), and every such
\* event that is dispatched carries its asset as an attachment, never a
\* textual placeholder.
C15_MediaWithoutAssetDropped ==
  \A r \in Requests :
    req[r].body.type \in {"image", "audio", "ptt", "document"} =>
      /\ (~req[r].body.fileUrl /\ ~req[r].body.filesUrl) =>
           /\ req[r].pc \notin {"pollwait1", "poll1", "pollwait2", "poll2", "fanout"}
           /\ NoDelivery(r)
      /\ Dispatched(r) => DispatchedKind(r) = "attachment"

\* C16: for a video event without an asset URL the poller issues at most two
\* re-queries, each entered from its fixed delay; the second is issued only
\* if the first returned successfully without an asset URL, and none is
\* issued once an asset URL has been obtained. No other event is re-queried.
C16_AtMostTwoPolls ==
  [][\A r \in Requests :
       /\ Len(req'[r].polls) <= 2
       /\ req'[r].polls # <<>> =>
            (req'[r].body.type = "video" /\ ~req'[r].body.fileUrl)
       /\ Len(req'[r].polls) = 2 => req'[r].polls[1] = "pending"
       /\ req'[r].pc \in {"pollwait2", "poll2"} => req'[r].polls = <<"pending">>
       /\ req'[r].pc \in {"pollwait1", "poll1"} => req'[r].polls = <<>>
       /\ req'[r].pc \in {"pollwait1", "poll1", "pollwait2", "poll2"} =>
            ~req'[r].fileUrl
       /\ (req'[r].pc = "poll1" /\ req[r].pc # "poll1") => req[r].pc = "pollwait1"
       /\ (req'[r].pc = "poll2" /\ req[r].pc # "poll2") => req[r].pc = "pollwait2"
    ]_vars

\* both re-queries were made and the second brought the asset
C16_Witness ==
  \E r \in Requests :
    /\ req[r].body.type = "video"
    /\ req[r].polls = <<"pending", "asset">>
    /\ req[r].pc = "fanout"

\* the polling of request r is over and brought no asset URL
PolledWithoutAsset(r) ==
  /\ req[r].body.type = "video"
  /\ req[r].polls # <<>>
  /\ req[r].polls[Len(req[r].polls)] # "asset"
  /\ req[r].pc \notin {"pollwait2", "poll2"}

\* C17: when the polling of a video event ends without an asset URL (both
\* re-queries without asset, or a re-query failed after its retries), the
\* request goes on to the fan-out with the textual fallback for the video
\* and is acknowledged as success.
C17_PollExhaustedFallsBack ==
  \A r \in Requests :
    PolledWithoutAsset(r) =>
      /\ req[r].pc \in {"fanout", "done"}
      /\ Dispatched(r)
      /\ DispatchedKind(r) = "fallback"
      /\ req[r].pc = "done" =>
           /\ response[r].code = 200
           /\ response[r].status = "success"
           /\ response[r].tag = "processed"

\* both re-queries came back without an asset; the event was delivered to
\* every channel and acknowledged
C17_Witness ==
  \E r \in Requests :
    /\ req[r].polls = <<"pending", "pending">>
    /\ req[r].pc = "done"
    /\ response[r].status = "success"
    /\ response[r].successCount = NumChannels

\* C18: for a video event without an asset URL whose first re-query returns
\* no asset and whose second returns a payload with file.url, the message
\* dispatched to the channels is an attachment, not the textual fallback.
C18_SecondPollAssetDispatched ==
  \A r \in Requests :
    (/\ req[r].body.type = "video"
     /\ req[r].polls = <<"pending", "asset">>
     /\ req[r].pc \in {"fanout", "done"}) =>
      (Dispatched(r) /\ DispatchedKind(r) = "attachment")

\* the contactId of the messages request r hands to its channels:
\* formatMessageForRespondIo applies the marker rule to contactPhoneNumber
DispatchedContactId(r) == EnsureCountryCode(req[r].contact)

\* C19: for every dispatched event, whether the number came from the webhook
\* fields, from the cache, from the profile lookup or from the raw-identifier
\* fallback, the contactId sent to the channels starts with '+'.
C19_ContactIdCarriesMarker ==
  \A r \in Requests :
    Dispatched(r) => DispatchedContactId(r).lead = "+"

\* C20: when the contact-profile lookup fails (on every retry, or with no
\* data), the request is not aborted: the raw contact identifier, under the
\* marker rule, is the destination and the event is fanned out to the
\* channels; the answer, once given, is the fan-out's.
C20_LookupFailureFallsBack ==
  \A r \in Requests :
    req[r].lookup = "failed" =>
      /\ req[r].contact = EnsureCountryCode(RawContactId(req[r].body))
      /\ req[r].pc \in {"fanout", "done"}
      /\ Dispatched(r)
      /\ req[r].pc = "done" =>
           /\ response[r].status \in {"success", "partial", "error"}
           /\ response[r].successCount + response[r].errorCount = NumChannels

\* the lookup failed, the raw identifier was the destination and every
\* channel took the event
C20_Witness ==
  \E r \in Requests :
    /\ req[r].lookup = "failed"
    /\ req[r].contact = RawContactId(req[r].body)
    /\ req[r].pc = "done"
    /\ response[r].successCount = NumChannels

\* C7: a fan-out completes with exactly one result per channel, and a
\* channel's result reflects only the outcome of its own POSTs: success iff
\* its last POST was answered 2xx, error iff all its maxRetries POSTs failed,
\* whatever happened to the other channels; the counts in the response are
\* the numbers of such channels.
C7_FanoutIsolation ==
  \A r \in Requests :
    /\ req[r].pc = "fanout" =>
         \A c \in req[r].channels :
           /\ chan[r][c].st = "ok" <=> Delivered(postLog[r][c])
           /\ chan[r][c].st = "failed" <=> Exhausted(postLog[r][c])
    /\ response[r].tag = "processed" =>
         /\ \A c \in req[r].channels :
              \/ chan[r][c].st = "ok" /\ Delivered(postLog[r][c])
              \/ chan[r][c].st = "failed" /\ Exhausted(postLog[r][c])
         /\ response[r].channelsProcessed = Cardinality(req[r].channels)
         /\ response[r].successCount =
              Cardinality({c \in req[r].channels : Delivered(postLog[r][c])})
         /\ response[r].errorCount =
              Cardinality({c \in req[r].channels : Exhausted(postLog[r][c])})
         /\ response[r].successCount + response[r].errorCount =
              response[r].channelsProcessed

\* channel 2 failed on every attempt, every other channel was delivered, and
\* the response counts one error
C7_Witness ==
  \E r \in Requests :
    /\ response[r].tag = "processed"
    /\ req[r].channels = Channels
    /\ Exhausted(postLog[r][2])
    /\ \A c \in Channels \ {2} : Delivered(postLog[r][c])
    /\ response[r].successCount = NumChannels - 1
    /\ response[r].errorCount = 1

\* C8: the deliveries of one event run concurrently and are joined: when the
\* handler waits for the fan-out every channel's delivery has been started,
\* and neither the dedup mark nor the response happens while a delivery is
\* still posting or backing off.
C8_ConcurrentAndJoined ==
  \A r \in Requests :
    /\ req[r].pc = "fanout" =>
         \A c \in req[r].channels : chan[r][c].st # "idle"
    /\ (req[r].marked \/ response[r].code # 0) =>
         \A c \in Channels : chan[r][c].st \notin {"posting", "backoff"}

\* one channel's delivery has settled while the deliveries to two others are
\* in flight at once, one of them on a retry; nothing is marked or answered
C8_Witness ==
  \E r \in Requests :
    /\ req[r].pc = "fanout"
    /\ ~req[r].marked
    /\ response[r] = NoResponse
    /\ \E c, d, e \in req[r].channels :
         /\ chan[r][c].st = "ok"
         /\ chan[r][d].st = "posting" /\ chan[r][d].attempt = 1
         /\ chan[r][e].st = "posting" /\ chan[r][e].attempt > 1
         /\ d # e

\* C9: once the fan-out of an event has settled, the event is marked
\* processed and the webhook is acknowledged with status "success" whatever
\* the per-channel outcomes; a later redelivery within the TTL is treated as
\* a duplicate.
C9_MarkedAcknowledgedThenDuplicate ==
  \A r \in Requests :
    /\ (req[r].pc = "done" /\ \E c \in req[r].channels : chan[r][c].st # "idle") =>
         /\ req[r].marked
         /\ response[r].code = 200
         /\ response[r].status = "success"
    /\ req[r].redelivery => req[r].dupHit

(***************************************************************************)
(* Claims on POST /:channelID/message (SpecSend)                           *)
(***************************************************************************)
\* the messages request number n handed to DigiSac
SentFor(n) == {i \in 1..Len(upstream) : upstream[i].n = n}

\* the directory's entry for a channel id, if any
Known(channelID) == \E item \in Directory : item.custom_channel_id = channelID

\* C21: a message is sent upstream only when the channel is known and the
\* request's bearer token equals that channel's own token; a request for an
\* unknown channel is answered 404, one with a missing or non-matching token
\* 401, and neither sends anything upstream.
C21_SendOnlyWhenAuthorized ==
  /\ \A i \in 1..Len(upstream) :
       \E item \in Directory :
         /\ item.custom_channel_id = upstream[i].channelID
         /\ upstream[i].header = BearerPrefix \o item.custom_channel_token
  /\ sreq.pc = "done" =>
       /\ sreq.channelConfig = NoChannelConfig =>
            (sreq.response.status = 404 /\ SentFor(sreq.n) = {})
       /\ (/\ sreq.channelConfig # NoChannelConfig
           /\ sreq.header # BearerPrefix \o sreq.channelConfig.custom_channel_token) =>
            (sreq.response.status = 401 /\ SentFor(sreq.n) = {})
  /\ ~Known(sreq.channelID) => sreq.channelConfig = NoChannelConfig

\* after an authorized request was sent upstream, a request for a known
\* channel that carries another channel's token was answered 401 and sent
\* nothing
C21_Witness ==
  /\ sreq.pc = "done"
  /\ sreq.n = 2
  /\ Len(upstream) = 1
  /\ upstream[1].n = 1
  /\ sreq.channelID = "ch1"
  /\ sreq.header = BearerPrefix \o TokenTwo
  /\ sreq.response.status = 401

\* C22: an authenticated request with a valid phone number whose message
\* type is not text, attachment, location or quick_reply is answered 400,
\* and nothing is sent upstream.
C22_UnsupportedTypeIs400 ==
  (/\ sreq.pc = "done"
   /\ sreq.channelConfig # NoChannelConfig
   /\ TokenMatches(sreq.header, sreq.channelConfig)
   /\ IsValidBrazilianPhone(sreq.phone)
   /\ sreq.msg.type \notin {"text", "attachment", "location", "quick_reply", "none"}) =>
    (sreq.response.status = 400 /\ SentFor(sreq.n) = {})

\* request r has ended and its event was to be processed: not a duplicate, a
\* message event, not of type ticket, with a message id and a sender, with a
\* subscribed channel and, for image, audio and document, with its asset
ProcessableEnded(r) ==
  /\ req[r].pc = "done"
  /\ req[r].body.hasData
  /\ req[r].dupCalls = <<FALSE>>
  /\ IsMessageEvent(req[r].body.event)
  /\ req[r].body.type # "ticket"
  /\ req[r].body.id # "none" /\ req[r].body.from # "none"
  /\ req[r].channels # {}
  /\ req[r].body.type \in {"image", "audio", "ptt", "document"} => req[r].body.fileUrl

\* C36: every event that is to be processed reaches the fan-out and is
\* marked processed, whatever its content, a text message whose text is
\* empty included.
C36_ProcessableIsFannedOut ==
  \A r \in Requests :
    ProcessableEnded(r) =>
      /\ req[r].marked
      /\ \A c \in req[r].channels : postLog[r][c] # <<>>

(***************************************************************************)
(* Claims on the webhook handler's termination (SpecLive)                  *)
(***************************************************************************)
\* what a step may do to the response of request r: a request that has ended
\* has its response, a response is sent only by the step that ends the
\* request, and nothing is sent for a request that has ended
RespondsOnce(r) ==
  /\ req'[r].pc = "done" => response'[r] # NoResponse
  /\ (response'[r] # response[r] /\ response'[r] # NoResponse) =>
       (req'[r].pc = "done" /\ (req[r].pc # "done" \/ deliveries' = deliveries + 1))
  /\ (req[r].pc = "done" /\ deliveries' = deliveries) => response'[r] = response[r]

C38_CallMessageToolReturns ==
  \A c \in RfSlots :
    (rcall[c].pc \notin {"idle", "returned"}) ~>
      (rcall[c].pc = "returned" /\ rcall[c].result # "none")

\* call c sends a POST /login/ in this step
LoginPosted(c) ==
  rcall'[c].pc \in {"login", "relogin"} /\ rcall'[c].pc # rcall[c].pc

\* the last login failed less than CooldownMinutes ago and none has
\* succeeded since
CooldownStanding ==
  lastFailure.standing /\ rfNow - lastFailure.at < CooldownMinutes

\* C39: after a failed login no login request is sent for the next 60
\* minutes: during that cooldown login() returns false without an HTTP call
\* (and only then); a successful login clears the failure record, and only a
\* failed login starts or restarts the cooldown.
C39_LoginCooldown ==
  [][/\ \A c \in RfSlots :
          /\ LoginPosted(c) => ~CooldownStanding
          /\ (rcall'[c].blocked /\ rcall'[c] # rcall[c]) =>
               /\ CooldownStanding
               /\ rcall'[c].pc = "returned" /\ rcall'[c].result = "failure"
               /\ rcall'[c].logins = (IF rcall[c].pc = "get" THEN rcall[c].logins ELSE 0)
     /\ (lastFailure.standing /\ ~lastFailure'.standing) => rfLastAttempt' = NoAttempt
     /\ (rfLastAttempt' # NoAttempt /\ rfLastAttempt' # rfLastAttempt) =>
          /\ lastFailure' = [at |-> rfNow, standing |-> TRUE]
          /\ rfLastAttempt' = rfNow
     /\ lastFailure'.standing => rfLastAttempt' = lastFailure'.at]_vars

\* a login failed at clock 0; half an hour later a call that needed a login
\* came back failed without sending one; once the hour had passed the next
\* call sent its login request
C39_Witness ==
  /\ lastFailure = [at |-> 0, standing |-> TRUE]
  /\ rcall[2].pc = "returned" /\ rcall[2].blocked /\ rcall[2].logins = 0
  /\ rcall[2].result = "failure"
  /\ rcall[1].pc = "login" /\ rcall[1].logins = 1
  /\ rfCalls = 3
  /\ rfNow = CooldownMinutes

(***************************************************************************)
(* Claims on getChannelsByServiceId (SpecChannels)                         *)
(***************************************************************************)
\* C23: getChannelsByServiceId is cache-first. A call made while the cache
\* holds an unexpired entry for the serviceId returns the stored list and
\* does not call the directory; a call that finds no entry calls the
\* directory once and, when it answers, returns its channels whose service
\* id is serviceId, having stored that list under the serviceId's key with
\* the channels ttl.
C23_ChannelsCacheFirst ==
  /\ \A g \in GcSlots :
       gcall[g].pc = "returned" =>
         /\ gcall[g].fresh => gcall[g].seen.held
         /\ gcall[g].seen.held =>
              (gcall[g].result = gcall[g].seen.value /\ gcall[g].fetches = 0)
         /\ ~gcall[g].seen.held =>
              /\ gcall[g].fetches = 1
              /\ HasResultList(gcall[g].fetched) =>
                   /\ gcall[g].result =
                        {item \in gcall[g].fetched.results :
                           item.digisac_service_id = gcall[g].serviceId}
                   /\ gcall[g].stored =
                        [key |-> <<"channels", gcall[g].serviceId>>,
                         value |-> gcall[g].result, ttl |-> ChannelsTtl]
  /\ \A s \in GcServices :
       /\ Unexpired(s) => dcCache[s].held
       /\ \A item \in dcCache[s].value : item.digisac_service_id = s

\* a call fetched and stored the channels of S1; a later call, made while
\* the entry was unexpired, returned the stored list without a second fetch
C23_Witness ==
  /\ gcall[1].pc = "returned" /\ gcall[1].serviceId = "S1"
  /\ gcall[1].fetches = 1 /\ HasResultList(gcall[1].fetched)
  /\ gcall[2].pc = "returned" /\ gcall[2].serviceId = "S1"
  /\ gcall[2].fresh /\ gcall[2].fetches = 0
  /\ gcall[2].result = gcall[1].result
  /\ gcall[2].result # {}
  /\ dirFetches = 1

\* call g's fetch has just come back failed or without a result list
FetchFailed(g) ==
  /\ gcall[g].pc = "fetching"
  /\ gcall'[g].pc = "returned"
  /\ ~HasResultList(gcall'[g].fetched)

\* a call for serviceId starts in slot g
CallStarts(g, serviceId) ==
  /\ gcCalls' = gcCalls + 1
  /\ gcall'[g] # gcall[g]
  /\ gcall'[g].serviceId = serviceId

\* C34: when the directory fetch of getChannelsByServiceId fails or returns
\* no result list, the call returns an empty list and stores nothing in the
\* cache; a later call for a serviceId for which only such fetches have come
\* back fetches the directory again.
C34_FailedFetchStoresNothing ==
  [][\A g \in GcSlots :
       /\ FetchFailed(g) =>
            /\ gcall'[g].result = {}
            /\ gcall'[g].stored = IdleGc.stored
            /\ dcCache' = dcCache /\ dcTimers' = dcTimers /\ dcStored' = dcStored
       /\ \A s \in GcServices :
            (CallStarts(g, s) /\ ~dcStored[s].done) =>
              (gcall'[g].pc = "fetching" /\ dirFetches' = dirFetches + 1)]_vars

\* a call for S1 fetched and the directory answered without a result list;
\* it returned the empty list, the cache holds nothing for S1, and the next
\* call for S1 has gone to the directory again
C34_Witness ==
  /\ gcall[1].pc = "returned" /\ gcall[1].serviceId = "S1"
  /\ gcall[1].fetches = 1
  /\ gcall[1].fetched = [success |-> TRUE, listed |-> FALSE, results |-> {}]
  /\ gcall[1].result = {}
  /\ ~dcCache["S1"].held
  /\ gcall[2].pc = "fetching" /\ gcall[2].serviceId = "S1"
  /\ gcCalls = 2 /\ dirFetches = 2

(***************************************************************************)
(* Claims on overlapping webhook requests (SpecOverlap)                    *)
(***************************************************************************)
\* C25: when two webhook requests carrying the same event overlap (the
\* second's dedup check runs before the first has called markAsProcessed),
\* the event is fanned out by at most one of them: no channel receives the
\* event from both requests.
C25_OverlapFansOutOnce ==
  \A r1, r2 \in Requests :
    (/\ r1 # r2
     /\ req[r1].pc # "idle" /\ req[r2].pc # "idle"
     /\ req[r1].body = req[r2].body) =>
      \A c \in Channels : ~(Delivered(postLog[r1][c]) /\ Delivered(postLog[r2][c]))

(***************************************************************************)
(* Claims on the order of the webhook handler's steps (Spec)               *)
(***************************************************************************)
\* the keys a step stores or refreshes in the dedup cache
NewlyMarked ==
  {k \in DOMAIN mcCache' : k \notin DOMAIN mcCache \/ mcCache'[k] # mcCache[k]}

\* C26: within one webhook request, markAsProcessed is called for an event
\* only after isDuplicate has been called for the same event in that request
\* and has returned false: every step that stores a key in the dedup cache
\* is the join of a request whose one isDuplicate call returned false, and
\* the key is that event's.
C26_MarkOnlyAfterCheck ==
  [][NewlyMarked # {} =>
       \E r \in Requests :
         /\ req[r].pc = "fanout" /\ req'[r].pc = "done"
         /\ req[r].dupCalls = <<FALSE>>
         /\ ~req[r].dupHit
         /\ NewlyMarked = {GenerateKey(req[r].body, now)}
         /\ mcCache'[GenerateKey(req[r].body, now)].event = req[r].body
    ]_vars

\* a request whose isDuplicate call returned false has marked its event
C26_Witness ==
  \E r \in Requests :
    /\ req[r].pc = "done"
    /\ req[r].marked
    /\ req[r].dupCalls = <<FALSE>>
    /\ GenerateKey(req[r].body, now) \in DOMAIN mcCache

\* request r ends in this step without having started a fan-out
EndsWithoutFanout(r) ==
  /\ req[r].pc # "fanout"
  /\ req'[r] # req[r]
  /\ req'[r].pc = "done"

\* C27: a webhook request that ends without a fan-out (ignored as ticket,
\* unsupported event type, no subscribed channel, asset-less media,
\* incomplete data, or an internal error) leaves the dedup cache unchanged,
\* so the event is not a duplicate for a later redelivery because of it.
C27_EarlyExitLeavesCache ==
  [][\A r \in Requests :
       EndsWithoutFanout(r) =>
         /\ mcCache' = mcCache
         /\ ~req'[r].marked
    ]_vars

\* after another event was fanned out and marked, a request was ignored for
\* want of channels: the cache holds the other event's entry and none for
\* the ignored event
C27_Witness ==
  \E r \in Requests :
    /\ req[r].pc = "done"
    /\ response[r].tag = "no_channels"
    /\ req[r].dupCalls = <<FALSE>>
    /\ DOMAIN mcCache # {}
    /\ ~MarkedWithinTtl(req[r].body, now)
    /\ ~IsDuplicate(req[r].body, now)

\* C28: a webhook whose event type is not a message event exits as ignored
\* before any channel-directory fetch and before any contact-profile lookup
\* is made: its request never awaits the directory or the profile.
C28_ClassifiedBeforeResolved ==
  \A r \in Requests :
    (/\ req[r].pc # "idle"
     /\ req[r].body.hasData
     /\ req[r].body.event # "none"
     /\ ~IsMessageEvent(req[r].body.event)) =>
      req[r].pc \notin {"channels", "contact"}

(***************************************************************************)
(* Claims on the fan-out's handling of rejections (SpecFanout)             *)
(***************************************************************************)
\* a 4xx other than 408 and 429
PermanentClientError(status) ==
  status >= 400 /\ status < 500 /\ status \notin {408, 429}

\* C30: in the fan-out, a channel whose POST is rejected with a permanent
\* client error (4xx other than 408/429) receives exactly one POST for the
\* event and its result is an error, while a channel whose POST fails with a
\* transient error (5xx, 429, 408) is retried up to maxRetries times.
C30_PermanentErrorFailsFast ==
  \A r \in Requests, c \in Channels :
    LET log == postLog[r][c]
    IN /\ Len(log) <= maxRetries
       /\ (Len(log) >= 1 /\ PermanentClientError(log[1])) =>
            (Len(log) = 1 /\ chan[r][c].st = "failed")
       /\ (Len(log) >= 1 /\ ~PermanentClientError(log[Len(log)])
              /\ ~Delivered(log) /\ Len(log) < maxRetries) =>
            chan[r][c].st \in {"backoff", "posting"}

====
